---- MODULE Spec2Model ----
(***************************************************************************)
(* Smart Helpdesk: the agentic triage pipeline (agentService), its         *)
(* dispatcher (queueService) and the ticket routes that move a ticket's    *)
(* status.  Every await of triageTicket is one step of a run, so that a    *)
(* store failure can hit between any two writes.  Confidences and          *)
(* thresholds are in hundredths (0.78 is 78), keyword scores in tenths.    *)
(***************************************************************************)
EXTENDS Integers, Sequences, FiniteSets, TLC

\* ------------------------------------------------------------------ bounds
MaxDispatch == 1
MaxFail == 1
MaxOps == 1
MaxDecisions == 2
MaxWords == 3
MaxTies == 1

\* ------------------------------------------------------- program constants
JobAttempts == 3
WorkerConcurrency == 5
DefaultConfidenceThreshold == 78
DefaultMaxRetries == 3
CategoryUpdateConfidence == 70
MinConfidence == 30
MaxConfidence == 95
KeywordWeight == 2
MinKeywordLength == 2
MaxKeywords == 10
TextScoreUnit == 667
TitleWeight == 3000
BodyWeight == 1000
TagWeight == 2000
HelpfulBoost == 100
NotHelpfulPenalty == 50
OtherBaseScore == 1
RetrieveLimit == 3

None == "none"
SystemUserId == "sys"

Categories == <<"billing", "tech", "shipping", "other">>

CategorySet == {Categories[i] : i \in 1..Len(Categories)}

Statuses == {"open", "triaged", "waiting_human", "resolved", "closed"}

TicketIds == {1, 2}

\* the keyword table of the stub classifier, restricted to the words of Vocabulary
Keywords == [billing |-> {"refund", "charge"}, tech |-> {"error"},
             shipping |-> {"delivery"}, other |-> {"help"}]

\* ticket texts, as the words of title and description that matter to the keyword matcher
Texts == {<<"refund", "charge", "charge">>}

\* the words a text is made of: keywords of the classifier and a word that is none
Vocabulary == {"refund", "error", "delivery", "help", "hello"}

\* a text whose score gap exceeds the upper clamp of the confidence
LongText == [i \in 1..10 |-> "help"]

\* every text of at most MaxWords words (the empty text included), and LongText
AllTexts == UNION {[1..n -> Vocabulary] : n \in 0..MaxWords} \cup {LongText}

\* ------------------------------------------------------------ the classifier
RECURSIVE CountMatches(_, _)
CountMatches(text, words) ==
    IF text = <<>> THEN 0
    ELSE (IF Head(text) \in words THEN 1 ELSE 0) + CountMatches(Tail(text), words)

Score(text, cat) ==
    KeywordWeight * CountMatches(text, Keywords[cat])
        + (IF cat = "other" THEN OtherBaseScore ELSE 0)

RECURSIVE ReduceBest(_, _, _)
ReduceBest(text, a, i) ==
    IF i > Len(Categories) THEN a
    ELSE ReduceBest(text,
                    IF Score(text, a) > Score(text, Categories[i]) THEN a ELSE Categories[i],
                    i + 1)

PredictedCategory(text) == ReduceBest(text, Categories[1], 2)

TopScore(text) ==
    CHOOSE s \in {Score(text, c) : c \in CategorySet} :
        \A c \in CategorySet : Score(text, c) <= s

SecondScore(text) ==
    LET top == TopScore(text)
        winner == CHOOSE c \in CategorySet : Score(text, c) = top
    IN  CHOOSE s \in {Score(text, c) : c \in CategorySet \ {winner}} :
            \A c \in CategorySet \ {winner} : Score(text, c) <= s

MutConfidence(text) ==
    LET num == TopScore(text) - SecondScore(text)
        den == TopScore(text) + 1
    IN  IF 100 * num >= MaxConfidence * den THEN MaxConfidence
        ELSE (200 * num + den) \div (2 * den)

Confidence(text) ==
    LET num == TopScore(text) - SecondScore(text)
        den == TopScore(text) + 1
    IN  IF 100 * num <= MinConfidence * den THEN MinConfidence
        ELSE IF 100 * num >= MaxConfidence * den THEN MaxConfidence
        ELSE (200 * num + den) \div (2 * den)

Classify(text) ==
    [predictedCategory |-> PredictedCategory(text), confidence |-> Confidence(text)]

\* ----------------------------------------------------------- configuration
DefaultCategoryThresholds ==
    [billing |-> 75, tech |-> 80, shipping |-> 70, other |-> 85]

DefaultConfig ==
    [autoCloseEnabled |-> TRUE,
     confidenceThreshold |-> DefaultConfidenceThreshold,
     categoryThresholds |-> DefaultCategoryThresholds,
     maxRetries |-> DefaultMaxRetries]

\* configurations an administrator may have stored before the runs start
StoredConfigs ==
    {[DefaultConfig EXCEPT !.confidenceThreshold = 71, !.maxRetries = 2],
     [DefaultConfig EXCEPT !.confidenceThreshold = 50, !.maxRetries = 5],
     [DefaultConfig EXCEPT !.autoCloseEnabled = FALSE, !.confidenceThreshold = 50]}

MutShouldAutoClose(cfg, classification) ==
    cfg.autoCloseEnabled /\ classification.confidence > cfg.confidenceThreshold

ShouldAutoClose(cfg, classification) ==
    cfg.autoCloseEnabled /\ classification.confidence >= cfg.confidenceThreshold

\* ------------------------------------------------------- knowledge base
\* Scores are counted in thousandths. An article is its words: those of the
\* title and of the body in order, and its tags; score is the field that the
\* text search adds (0 while absent).
NewArticle(id, title, body, tags, status, helpful, notHelpful, updatedAt) ==
    [id |-> id, title |-> title, body |-> body, tags |-> tags, status |-> status,
     helpful |-> helpful, notHelpful |-> notHelpful, updatedAt |-> updatedAt, score |-> 0]

\* the article collection, in collection order
Articles ==
    <<NewArticle("k1", <<"refund", "faq">>, <<"charge", "refund">>, {"billing", "faq"}, "published", 3, 0, 1),
      NewArticle("k2", <<"error", "fix">>, <<"error">>, {"tech"}, "published", 0, 0, 2),
      NewArticle("k3", <<"refund", "draft">>, <<"refund">>, {"billing"}, "draft", 9, 0, 3),
      NewArticle("k4", <<"refund", "policy">>, <<"policy">>, {"billing"}, "published", 0, 0, 4),
      NewArticle("k5", <<"charge">>, <<"refund", "charge">>, {"billing"}, "published", 0, 7, 5),
      NewArticle("k6", <<"refund">>, <<"money">>, {"billing", "other"}, "published", 1, 0, 5),
      NewArticle("k7", <<"helpdesk">>, <<"hours", "helpdesk">>, {"other"}, "published", 0, 0, 6),
      NewArticle("k8", <<"help">>, <<"contact">>, {"other"}, "published", 0, 30, 7)>>

Reversed(s) == [i \in 1..Len(s) |-> s[Len(s) + 1 - i]]

\* collections the service may find: the whole one in both orders, parts of
\* it, and none
Corpora ==
    {Articles, Reversed(Articles), SubSeq(Articles, 6, 8), Reversed(SubSeq(Articles, 4, 7)), <<>>}

\* _extractKeywords: the stop words that occur in the texts checked
StopWords == {"the", "and", "for"}

FirstOf(s, n) == SubSeq(s, 1, IF Len(s) < n THEN Len(s) ELSE n)

\* _extractKeywords: words longer than two letters that are no stop words,
\* the first ten of them
ExtractKeywords(text) ==
    FirstOf(SelectSeq(text, LAMBDA w : Len(w) > MinKeywordLength /\ w \notin StopWords), MaxKeywords)

\* new RegExp(keyword) finds the keyword inside a longer word
Infixes == {<<"help", "helpdesk">>}

RegexFinds(keyword, word) == keyword = word \/ <<keyword, word>> \in Infixes

\* _countMatches: the occurrences of every keyword in a text, keyword by keyword
KeywordMatches(words, keywords) ==
    Cardinality({p \in (1..Len(keywords)) \X (1..Len(words)) : RegexFinds(keywords[p[1]], words[p[2]])})

TagMatches(article, keywords) ==
    Cardinality({k \in 1..Len(keywords) : keywords[k] \in article.tags})

\* $text: the terms of the query, stop words dropped, match whole words of
\* the indexed fields title, body and tags
TextTerms(text) == {text[i] : i \in 1..Len(text)} \ StopWords

\* $meta textScore, as a stand-in that grows with every matching word
TextScore(article, terms) ==
    TextScoreUnit *
        (Cardinality({i \in 1..Len(article.title) : article.title[i] \in terms})
            + Cardinality({i \in 1..Len(article.body) : article.body[i] \in terms})
            + Cardinality(article.tags \cap terms))

MutStableSortDesc(s, field) == s

\* a stable sort by a field, greatest first
RECURSIVE StableSortDesc(_, _)
StableSortDesc(s, field) ==
    IF s = <<>> THEN <<>>
    ELSE LET x == Head(s)
             rest == StableSortDesc(Tail(s), field)
             n == Cardinality({i \in 1..Len(rest) : rest[i][field] > x[field]})
         IN  SubSeq(rest, 1, n) \o <<x>> \o SubSeq(rest, n + 1, Len(rest))

\* _textSearch: $match, $addFields score, $sort by score, $limit
TextSearch(corpus, text, category, limit) ==
    LET hits == SelectSeq(corpus, LAMBDA a : /\ a.status = "published"
                                             /\ category \in a.tags
                                             /\ TextScore(a, TextTerms(text)) > 0)
        scored == [i \in 1..Len(hits) |-> [hits[i] EXCEPT !.score = TextScore(hits[i], TextTerms(text))]]
    IN  FirstOf(StableSortDesc(scored, "score"), limit)

\* _keywordSearch: find by regular expressions on title and body and by tag,
\* sorted by updatedAt, newest first, and limited
KeywordSearch(corpus, text, category, limit) ==
    LET keywords == ExtractKeywords(text)
        hits == SelectSeq(corpus, LAMBDA a : /\ a.status = "published"
                                             /\ category \in a.tags
                                             /\ \/ KeywordMatches(a.title, keywords) > 0
                                                \/ KeywordMatches(a.body, keywords) > 0
                                                \/ TagMatches(a, keywords) > 0)
    IN  FirstOf(StableSortDesc(hits, "updatedAt"), limit)

\* Math.round(score * 100) / 100 on thousandths: to the nearest hundredth,
\* halves upwards
RoundedToHundredths(x) == ((x + 5) \div 10) * 10

\* _scoreArticles: the relevance score of one article
RelevanceScore(article, keywords) ==
    RoundedToHundredths(article.score
                            + KeywordMatches(article.title, keywords) * TitleWeight
                            + KeywordMatches(article.body, keywords) * BodyWeight
                            + TagMatches(article, keywords) * TagWeight
                            + article.helpful * HelpfulBoost
                            - article.notHelpful * NotHelpfulPenalty)

\* _scoreArticles: every article with its relevanceScore, best first
ScoreArticles(articles, text) ==
    StableSortDesc([i \in 1..Len(articles) |->
                        [a |-> articles[i],
                         relevanceScore |-> RelevanceScore(articles[i], ExtractKeywords(text))]],
                   "relevanceScore")

MutMerged(found, keywordResults) == found \o keywordResults

\* searchArticles: the keyword results that the text search had not found
\* are put behind the text results
Merged(found, keywordResults) ==
    found \o SelectSeq(keywordResults, LAMBDA a : \A i \in 1..Len(found) : found[i].id # a.id)

\* searchArticles: text search, keyword search when that found too few,
\* scoring, and the cut to limit
ScoredSearch(corpus, text, category, limit) ==
    LET found == TextSearch(corpus, text, category, limit)
        articles == IF Len(found) < limit
                    THEN Merged(found, KeywordSearch(corpus, text, category, limit - Len(found)))
                    ELSE found
    IN  FirstOf(ScoreArticles(articles, text), limit)

\* --------------------------------------------------------------- the state
VARIABLES
    tickets,        \* Ticket collection: id -> document
    users,          \* User collection, in collection order
    configs,        \* Config collection, in collection order (findOne takes the first)
    suggestions,    \* AgentSuggestion collection, in creation order; _id is the index
    audit,          \* AuditLog collection, in append order
    runs,           \* the invocations of triageTicket, in start order
    jobs,           \* the jobs of the 'triage' queue, in enqueue order
    env,            \* the deployment: kb = the Article collection; queue = triageQueue is defined (Redis was reachable
                    \* at start-up), faults = stores and services may fail, fast = the
                    \* store can answer within one millisecond
    nDispatch,      \* calls of addTriageJob since Init; they take traceId 1, 2, ...
    failures,       \* store / service failures injected so far
    nOps,           \* requests served by the ticket routes so far
    response        \* the last response of a ticket route

vars == <<tickets, users, configs, suggestions, audit, runs, jobs, env,
          nDispatch, failures, nOps, response>>

NoTicket ==
    [exists |-> FALSE, text |-> <<>>, category |-> "other", status |-> "open",
     createdBy |-> None, assignee |-> None, sugg |-> 0, replies |-> <<>>,
     resolvedAt |-> FALSE, closedAt |-> FALSE]

NewTicket(text, creator) ==
    [NoTicket EXCEPT !.exists = TRUE, !.text = text, !.createdBy = creator]

NewUser(id, role) == [id |-> id, role |-> role, isActive |-> TRUE]

NoClassification == [predictedCategory |-> None, confidence |-> 0]

\* no request served yet
NoResponse == [op |-> None, ticketId |-> 0, suggestionId |-> 0, code |-> 0]

Response(op, t, code) == [op |-> op, ticketId |-> t, suggestionId |-> 0, code |-> code]

\* the configuration a reader finds: the first document, or the defaults
StoredConfig == IF configs = <<>> THEN DefaultConfig ELSE configs[1]

\* kbService.searchArticles(query, {limit: 3, category}) on the stored
\* articles: the identifiers of what it returns
SearchArticles(text, category) ==
    LET scored == ScoredSearch(env.kb, text, category, RetrieveLimit)
    IN  [i \in 1..Len(scored) |-> scored[i].a.id]

NewRun(ticketId, traceId, job) ==
    [pc |-> "plan_find", ticketId |-> ticketId, traceId |-> traceId, job |-> job,
     loaded |-> NoTicket, doc |-> NoTicket,
     before |-> [status |-> tickets[ticketId].status, assignee |-> tickets[ticketId].assignee,
                 replies |-> tickets[ticketId].replies, resolvedAt |-> tickets[ticketId].resolvedAt,
                 agents |-> {i \in 1..Len(users) : users[i].role \in {"agent", "admin"} /\ users[i].isActive},
                 config |-> StoredConfig],
     classification |-> NoClassification, articles |-> <<>>,
     cfg |-> DefaultConfig, auto |-> FALSE, sugg |-> 0,
     agents |-> <<>>, agent |-> None, decision |-> None,
     error |-> None, raised |-> None]

Init ==
    /\ \E x \in Texts : tickets = [t \in TicketIds |-> IF t = 1 THEN NewTicket(x, "u1") ELSE NoTicket]
    /\ users = <<NewUser("u1", "user"), NewUser("u2", "user"), NewUser("a1", "agent")>>
    /\ configs \in {<<>>} \cup {<<c>> : c \in StoredConfigs}
    /\ suggestions = <<>>
    /\ audit = <<>>
    /\ runs = <<>>
    /\ jobs = <<>>
    /\ env \in [queue : BOOLEAN, faults : BOOLEAN, fast : {FALSE}, kb : {Articles}]
    /\ nDispatch = 0
    /\ failures = 0
    /\ nOps = 0
    /\ response = NoResponse

\* ------------------------------------------------------------- helpers
CanFail == env.faults /\ failures < MaxFail

Outcomes == IF CanFail THEN {"ok", "fail"} ELSE {"ok"}

Running(r) == runs[r].pc \notin {"done", "failed"}

ActiveRuns == {r \in 1..Len(runs) : Running(r)}

ActiveJobs == {j \in 1..Len(jobs) : jobs[j].state = "active"}

\* new AuditLog({...}); timestamp is filled in when the document is built
AuditEvent(ticketId, traceId, actor, action, meta, run) ==
    [ticketId |-> ticketId, traceId |-> traceId, actor |-> actor,
     action |-> action, meta |-> meta, run |-> run, timestamp |-> 0]

\* the timestamp of the newest event; timestamps count the distinct
\* milliseconds in which events were built
LastStamp == IF audit = <<>> THEN 0 ELSE audit[Len(audit)].timestamp

\* events so far that were built in the millisecond of the one before them
SameMs == Len(audit) - LastStamp

\* Date.now() when the next event is built: a later millisecond or, where the
\* store answers within the clock's resolution, still that of the last event
Now ==
    {LastStamp + 1} \cup
    (IF env.fast /\ audit # <<>> /\ SameMs < MaxTies THEN {LastStamp} ELSE {})

\* new AuditLog(e) with timestamp: Date.now, and its awaited save()
Logged(e) == \E now \in Now : audit' = Append(audit, [e EXCEPT !.timestamp = now])

\* _logAuditEvent as called by run r
RunEvent(r, action, meta) ==
    AuditEvent(runs[r].ticketId, runs[r].traceId, "system", action, meta, r)

\* the run leaves the try block with error err
Thrown(r, err) == [runs EXCEPT ![r].pc = "catch", ![r].error = err]

\* one awaited _logAuditEvent of run r: the event is appended, or the store fails
\* run r is the inline triage that POST /api/tickets awaits: it was started
\* without a job under the traceId of the ticket's TICKET_CREATED event
AwaitedByCreate(r) ==
    /\ runs[r].job = 0
    /\ \E i \in 1..Len(audit) :
        /\ audit[i].action = "TICKET_CREATED"
        /\ audit[i].ticketId = runs[r].ticketId
        /\ audit[i].traceId = runs[r].traceId

MutAnswered(r, code) ==
    IF AwaitedByCreate(r) THEN Response("create", runs[r].ticketId, 201) ELSE response

\* addTriageJob without a queue awaits triageTicket and rethrows its error,
\* so POST /api/tickets answers when the run ends: 201, or 500 from its catch
Answered(r, code) ==
    IF AwaitedByCreate(r) THEN Response("create", runs[r].ticketId, code) ELSE response

LogStep(r, o, action, meta, nextRuns) ==
    IF o = "ok"
    THEN /\ Logged(RunEvent(r, action, meta))
         /\ runs' = nextRuns
         /\ failures' = failures
    ELSE /\ audit' = audit
         /\ runs' = Thrown(r, "store")
         /\ failures' = failures + 1

MutSavedTicket(db, loaded, doc) ==
    [db EXCEPT
        !.category = IF doc.category # loaded.category THEN doc.category ELSE @,
        !.status = IF doc.status # loaded.status THEN doc.status ELSE @,
        !.assignee = IF doc.assignee # loaded.assignee THEN doc.assignee ELSE @,
        !.sugg = IF doc.sugg # loaded.sugg THEN doc.sugg ELSE @,
        !.closedAt = IF doc.closedAt # loaded.closedAt THEN doc.closedAt ELSE @,
        !.replies = @ \o SubSeq(doc.replies, Len(loaded.replies) + 1, Len(doc.replies))]

MutSavedWhole(db, loaded, doc) == [doc EXCEPT !.exists = db.exists]

\* mongoose document.save(): the paths changed since loading are written,
\* pushed replies are appended to the stored array
SavedTicket(db, loaded, doc) ==
    [db EXCEPT
        !.category = IF doc.category # loaded.category THEN doc.category ELSE @,
        !.status = IF doc.status # loaded.status THEN doc.status ELSE @,
        !.assignee = IF doc.assignee # loaded.assignee THEN doc.assignee ELSE @,
        !.sugg = IF doc.sugg # loaded.sugg THEN doc.sugg ELSE @,
        !.resolvedAt = IF doc.resolvedAt # loaded.resolvedAt THEN doc.resolvedAt ELSE @,
        !.closedAt = IF doc.closedAt # loaded.closedAt THEN doc.closedAt ELSE @,
        !.replies = @ \o SubSeq(doc.replies, Len(loaded.replies) + 1, Len(doc.replies))]

\* one awaited ticket.save() of run r
SaveStep(r, o, nextpc) ==
    IF o = "ok"
    THEN /\ tickets' = [tickets EXCEPT ![runs[r].ticketId] = SavedTicket(@, runs[r].loaded, runs[r].doc)]
         /\ runs' = [runs EXCEPT ![r].pc = nextpc, ![r].loaded = runs[r].doc]
         /\ failures' = failures
    ELSE /\ tickets' = tickets
         /\ runs' = Thrown(r, "store")
         /\ failures' = failures + 1

MutReply(author, content, isInternal) ==
    [author |-> author, content |-> content, isInternal |-> TRUE]

Reply(author, content, isInternal) ==
    [author |-> author, content |-> content, isInternal |-> isInternal]

\* BullMQ bookkeeping when the worker's handler returns or throws
JobsAfter(r, ok) ==
    IF runs[r].job = 0 THEN jobs
    ELSE [jobs EXCEPT ![runs[r].job] =
            IF ok THEN [@ EXCEPT !.state = "completed", !.attemptsMade = @ + 1]
            ELSE [@ EXCEPT !.attemptsMade = @ + 1,
                           !.state = IF jobs[runs[r].job].attemptsMade + 1 < JobAttempts
                                     THEN "waiting" ELSE "failed"]]

\* ----------------------------------------------------------- the dispatcher
\* addTriageJob(ticketId, traceId) with the fresh traceId of its caller
Dispatch(t) ==
    /\ nDispatch < MaxDispatch
    /\ nDispatch' = nDispatch + 1
    /\ IF env.queue
       THEN /\ jobs' = Append(jobs, [ticketId |-> t, traceId |-> nDispatch + 1,
                                     attemptsMade |-> 0, state |-> "waiting"])
            /\ runs' = runs
       ELSE /\ runs' = Append(runs, NewRun(t, nDispatch + 1, 0))
            /\ jobs' = jobs
    /\ UNCHANGED <<tickets, users, configs, suggestions, audit, env, failures, nOps, response>>

\* the worker takes a waiting job and calls triageTicket(ticketId, traceId)
WorkerTake(j) ==
    /\ jobs[j].state = "waiting"
    /\ Cardinality(ActiveJobs) < WorkerConcurrency
    /\ jobs' = [jobs EXCEPT ![j].state = "active"]
    /\ runs' = Append(runs, NewRun(jobs[j].ticketId, jobs[j].traceId, j))
    /\ UNCHANGED <<tickets, users, configs, suggestions, audit, env, nDispatch, failures, nOps, response>>

\* ------------------------------------------------------------ triageTicket
\* _planWorkflow: Ticket.findById
PlanFind(r) ==
    /\ runs[r].pc = "plan_find"
    /\ \E o \in Outcomes :
        /\ runs' = IF o = "fail" THEN Thrown(r, "store")
                   ELSE IF ~tickets[runs[r].ticketId].exists THEN Thrown(r, "Ticket not found")
                   ELSE [runs EXCEPT ![r].pc = "plan_log",
                                     ![r].loaded = tickets[runs[r].ticketId],
                                     ![r].doc = tickets[runs[r].ticketId]]
        /\ failures' = IF o = "fail" THEN failures + 1 ELSE failures
    /\ UNCHANGED <<tickets, users, configs, suggestions, audit, jobs, env, nDispatch, nOps, response>>

\* _planWorkflow: TRIAGE_STARTED
PlanLog(r) ==
    /\ runs[r].pc = "plan_log"
    /\ \E o \in Outcomes :
        LogStep(r, o, "TRIAGE_STARTED", [category |-> runs[r].doc.category],
                [runs EXCEPT ![r].pc = "classify", ![r].before.config = StoredConfig])
    /\ UNCHANGED <<tickets, users, configs, suggestions, jobs, env, nDispatch, nOps, response>>

\* _classifyTicket: llmService.classify, then AGENT_CLASSIFIED
MutUpdatesCategory(c, category) == c.predictedCategory # category

\* _classifyTicket: the condition under which ticket.category is overwritten
UpdatesCategory(c, category) ==
    c.predictedCategory # category /\ c.confidence > CategoryUpdateConfidence

ClassifyLog(r) ==
    /\ runs[r].pc = "classify"
    /\ LET c == Classify(runs[r].doc.text)
           update == UpdatesCategory(c, runs[r].doc.category)
       IN  \/ \E o \in Outcomes :
                LogStep(r, o, "AGENT_CLASSIFIED",
                        [predictedCategory |-> c.predictedCategory, confidence |-> c.confidence],
                        [runs EXCEPT ![r].classification = c,
                                     ![r].pc = IF update THEN "classify_save" ELSE "retrieve",
                                     ![r].doc.category = IF update THEN c.predictedCategory ELSE @])
           \/ /\ CanFail
              /\ failures' = failures + 1
              /\ runs' = Thrown(r, "Classification service unavailable")
              /\ audit' = audit
    /\ UNCHANGED <<tickets, users, configs, suggestions, jobs, env, nDispatch, nOps, response>>

\* _classifyTicket: ticket.save() of the corrected category
ClassifySave(r) ==
    /\ runs[r].pc = "classify_save"
    /\ \E o \in Outcomes : SaveStep(r, o, "retrieve")
    /\ UNCHANGED <<users, configs, suggestions, audit, jobs, env, nDispatch, nOps, response>>

\* _retrieveKnowledge: kbService.searchArticles, then KB_RETRIEVED
RetrieveLog(r) ==
    /\ runs[r].pc = "retrieve"
    /\ LET found == SearchArticles(runs[r].doc.text, runs[r].classification.predictedCategory)
       IN  \/ \E o \in Outcomes :
                LogStep(r, o, "KB_RETRIEVED", [articleIds |-> found],
                        [runs EXCEPT ![r].articles = found, ![r].pc = "draft"])
           \/ /\ CanFail
              /\ failures' = failures + 1
              /\ runs' = Thrown(r, "Knowledge base search unavailable")
              /\ audit' = audit
    /\ UNCHANGED <<tickets, users, configs, suggestions, jobs, env, nDispatch, nOps, response>>

\* llmService.draft: the category template, the numbered titles of the
\* first three articles, the signature; citations are those articles' ids
MutDraft(text, articles) ==
    LET n == IF Len(articles) < 3 THEN Len(articles) ELSE 3
        cited == [i \in 1..n |-> articles[n + 1 - i]]
    IN  [draftReply |-> [template |-> PredictedCategory(text), references |-> cited],
         citations |-> cited]

Draft(text, articles) ==
    LET cited == SubSeq(articles, 1, IF Len(articles) < 3 THEN Len(articles) ELSE 3)
    IN  [draftReply |-> [template |-> PredictedCategory(text), references |-> cited],
         citations |-> cited]

\* _draftReply: llmService.draft, then DRAFT_GENERATED
DraftLog(r) ==
    /\ runs[r].pc = "draft"
    /\ \/ \E o \in Outcomes :
            LogStep(r, o, "DRAFT_GENERATED",
                    [citations |-> Draft(runs[r].doc.text, runs[r].articles).citations],
                    [runs EXCEPT ![r].pc = "config_find"])
       \/ /\ CanFail
          /\ failures' = failures + 1
          /\ runs' = Thrown(r, "Draft generation service unavailable")
          /\ audit' = audit
    /\ UNCHANGED <<tickets, users, configs, suggestions, jobs, env, nDispatch, nOps, response>>

\* _getConfig: Config.findOne(); _makeDecision then evaluates shouldAutoClose
ConfigFind(r) ==
    /\ runs[r].pc = "config_find"
    /\ \E o \in Outcomes :
        /\ runs' = IF o = "fail" THEN Thrown(r, "store")
                   ELSE IF configs = <<>> THEN [runs EXCEPT ![r].pc = "config_save"]
                   ELSE [runs EXCEPT ![r].pc = "sugg_save",
                                     ![r].cfg = configs[1],
                                     ![r].auto = ShouldAutoClose(configs[1], runs[r].classification)]
        /\ failures' = IF o = "fail" THEN failures + 1 ELSE failures
    /\ UNCHANGED <<tickets, users, configs, suggestions, audit, jobs, env, nDispatch, nOps, response>>

\* _getConfig: no document was found, a default one is created and saved
ConfigSave(r) ==
    /\ runs[r].pc = "config_save"
    /\ \E o \in Outcomes :
        /\ configs' = IF o = "ok" THEN Append(configs, DefaultConfig) ELSE configs
        /\ runs' = IF o = "fail" THEN Thrown(r, "store")
                   ELSE [runs EXCEPT ![r].pc = "sugg_save",
                                     ![r].cfg = DefaultConfig,
                                     ![r].auto = ShouldAutoClose(DefaultConfig, runs[r].classification)]
        /\ failures' = IF o = "fail" THEN failures + 1 ELSE failures
    /\ UNCHANGED <<tickets, users, suggestions, audit, jobs, env, nDispatch, nOps, response>>

\* accepted has no default: <<>> while unset, <<b>> once set to b
NewSuggestion(r) ==
    [ticketId |-> runs[r].ticketId,
     traceId |-> runs[r].traceId,
     predictedCategory |-> runs[r].classification.predictedCategory,
     articleIds |-> runs[r].articles,
     draftReply |-> Draft(runs[r].doc.text, runs[r].articles).draftReply,
     confidence |-> runs[r].classification.confidence,
     autoClosed |-> runs[r].auto,
     accepted |-> <<>>, acceptedBy |-> None, acceptedAt |-> FALSE,
     run |-> r]

\* _makeDecision: suggestion.save(), in both branches before anything else is written
SuggestionSave(r) ==
    /\ runs[r].pc = "sugg_save"
    /\ \E o \in Outcomes :
        /\ suggestions' = IF o = "ok" THEN Append(suggestions, NewSuggestion(r)) ELSE suggestions
        /\ runs' = IF o = "fail" THEN Thrown(r, "store")
                   ELSE [runs EXCEPT ![r].pc = "sysuser_find", ![r].sugg = Len(suggestions) + 1]
        /\ failures' = IF o = "fail" THEN failures + 1 ELSE failures
    /\ UNCHANGED <<tickets, users, configs, audit, jobs, env, nDispatch, nOps, response>>

MutDecided(r) ==
    LET d == runs[r].doc
        withReply == [d EXCEPT !.replies = Append(@, Reply(SystemUserId,
                                    Draft(d.text, runs[r].articles).draftReply, FALSE)),
                               !.sugg = runs[r].sugg]
    IN  IF runs[r].auto
        THEN [runs EXCEPT ![r].pc = "ac_ticket_save",
                          ![r].doc = [withReply EXCEPT !.status = "resolved", !.resolvedAt = TRUE]]
        ELSE [runs EXCEPT ![r].pc = "hu_ticket_save",
                          ![r].doc = [withReply EXCEPT !.status = "waiting_human"]]

\* the in-memory ticket once the system user is known: the draft is pushed as
\* a reply, status and suggestion reference are set (not yet saved)
Decided(r) ==
    LET d == runs[r].doc
        withReply == [d EXCEPT !.replies = Append(@, Reply(SystemUserId,
                                    Draft(d.text, runs[r].articles).draftReply, FALSE)),
                               !.sugg = runs[r].sugg]
    IN  IF runs[r].auto
        THEN [runs EXCEPT ![r].pc = "ac_ticket_save",
                          ![r].doc = [withReply EXCEPT !.status = "resolved", !.resolvedAt = TRUE]]
        ELSE [runs EXCEPT ![r].pc = "find_agents",
                          ![r].doc = [withReply EXCEPT !.status = "waiting_human"]]

HasSystemUser == \E i \in 1..Len(users) : users[i].id = SystemUserId

\* _getSystemUser: User.findOne({email: 'system@helpdesk.ai'})
SystemUserFind(r) ==
    /\ runs[r].pc = "sysuser_find"
    /\ \E o \in Outcomes :
        /\ runs' = IF o = "fail" THEN Thrown(r, "store")
                   ELSE IF HasSystemUser THEN Decided(r)
                   ELSE [runs EXCEPT ![r].pc = "sysuser_save"]
        /\ failures' = IF o = "fail" THEN failures + 1 ELSE failures
    /\ UNCHANGED <<tickets, users, configs, suggestions, audit, jobs, env, nDispatch, nOps, response>>

\* _getSystemUser: the system user is created with role 'agent'; email is unique
SystemUserSave(r) ==
    /\ runs[r].pc = "sysuser_save"
    /\ \E o \in Outcomes :
        /\ users' = IF o = "ok" /\ ~HasSystemUser
                    THEN Append(users, NewUser(SystemUserId, "agent")) ELSE users
        /\ runs' = IF o = "fail" THEN Thrown(r, "store")
                   ELSE IF HasSystemUser THEN Thrown(r, "duplicate key")
                   ELSE Decided(r)
        /\ failures' = IF o = "fail" THEN failures + 1 ELSE failures
    /\ UNCHANGED <<tickets, configs, suggestions, audit, jobs, env, nDispatch, nOps, response>>

\* auto-close branch: ticket.save()
AutoCloseSave(r) ==
    /\ runs[r].pc = "ac_ticket_save"
    /\ \E o \in Outcomes : SaveStep(r, o, "ac_log")
    /\ UNCHANGED <<users, configs, suggestions, audit, jobs, env, nDispatch, nOps, response>>

\* auto-close branch: AUTO_CLOSED, then the result is returned
AutoCloseLog(r) ==
    /\ runs[r].pc = "ac_log"
    /\ \E o \in Outcomes :
        /\ LogStep(r, o, "AUTO_CLOSED",
                   [confidence |-> runs[r].classification.confidence,
                    threshold |-> runs[r].cfg.confidenceThreshold,
                    suggestionId |-> runs[r].sugg],
                   [runs EXCEPT ![r].pc = "done", ![r].decision = "auto_closed"])
        /\ jobs' = IF o = "ok" THEN JobsAfter(r, TRUE) ELSE jobs
        /\ response' = IF o = "ok" THEN Answered(r, 201) ELSE response
    /\ UNCHANGED <<tickets, users, configs, suggestions, env, nDispatch, nOps>>

IsAgent(u) == u.role \in {"agent", "admin"} /\ u.isActive

\* _findAvailableAgent: User.find of the active agents and admins
FindAgents(r) ==
    /\ runs[r].pc = "find_agents"
    /\ \E o \in Outcomes :
        /\ runs' = IF o = "fail" THEN Thrown(r, "store")
                   ELSE LET found == SelectSeq(users, IsAgent)
                        IN  [runs EXCEPT ![r].agents = found,
                                         ![r].pc = IF found = <<>> THEN "assign_log"
                                                   ELSE "count_workloads"]
        /\ failures' = IF o = "fail" THEN failures + 1 ELSE failures
    /\ UNCHANGED <<tickets, users, configs, suggestions, audit, jobs, env, nDispatch, nOps, response>>

\* Ticket.countDocuments({assignee, status in triaged/waiting_human})
Workload(u) ==
    Cardinality({t \in TicketIds : /\ tickets[t].exists
                                   /\ tickets[t].assignee = u
                                   /\ tickets[t].status \in {"triaged", "waiting_human"}})

MutLeastLoaded(agents) == agents[1].id

\* the stable sort by ticketCount, first element: the first agent of least workload
LeastLoaded(agents) ==
    LET i == CHOOSE i \in 1..Len(agents) :
                /\ \A k \in 1..Len(agents) : Workload(agents[i].id) <= Workload(agents[k].id)
                /\ \A k \in 1..(i - 1) : Workload(agents[k].id) > Workload(agents[i].id)
    IN  agents[i].id

\* _findAvailableAgent: the workload counts, the sort, and ticket.assignee = agent._id
CountWorkloads(r) ==
    /\ runs[r].pc = "count_workloads"
    /\ \E o \in Outcomes :
        /\ runs' = IF o = "fail" THEN Thrown(r, "store")
                   ELSE [runs EXCEPT ![r].agent = LeastLoaded(runs[r].agents),
                                     ![r].doc.assignee = LeastLoaded(runs[r].agents),
                                     ![r].pc = "assign_log"]
        /\ failures' = IF o = "fail" THEN failures + 1 ELSE failures
    /\ UNCHANGED <<tickets, users, configs, suggestions, audit, jobs, env, nDispatch, nOps, response>>

\* human branch: ASSIGNED_TO_HUMAN, with the assignee or the reason none was found
AssignLog(r) ==
    /\ runs[r].pc = "assign_log"
    /\ \E o \in Outcomes :
        LogStep(r, o, "ASSIGNED_TO_HUMAN",
                [assigneeId |-> runs[r].agent,
                 reason |-> IF runs[r].agent = None THEN "no_agent_available" ELSE "low_confidence",
                 confidence |-> runs[r].classification.confidence],
                [runs EXCEPT ![r].pc = "hu_ticket_save"])
    /\ UNCHANGED <<tickets, users, configs, suggestions, jobs, env, nDispatch, nOps, response>>

\* human branch: ticket.save()
HumanSave(r) ==
    /\ runs[r].pc = "hu_ticket_save"
    /\ \E o \in Outcomes : SaveStep(r, o, "reply_log")
    /\ UNCHANGED <<users, configs, suggestions, audit, jobs, env, nDispatch, nOps, response>>

\* human branch: REPLY_SENT, then the result is returned
ReplySentLog(r) ==
    /\ runs[r].pc = "reply_log"
    /\ \E o \in Outcomes :
        /\ LogStep(r, o, "REPLY_SENT",
                   [isAutoReply |-> TRUE, confidence |-> runs[r].classification.confidence],
                   [runs EXCEPT ![r].pc = "done", ![r].decision = "assigned_to_human"])
        /\ jobs' = IF o = "ok" THEN JobsAfter(r, TRUE) ELSE jobs
        /\ response' = IF o = "ok" THEN Answered(r, 201) ELSE response
    /\ UNCHANGED <<tickets, users, configs, suggestions, env, nDispatch, nOps>>

\* catch of triageTicket: TRIAGE_FAILED is logged (an await that can itself
\* fail), then the error is thrown to the caller
CatchLog(r) ==
    /\ runs[r].pc = "catch"
    /\ \E o \in Outcomes :
        /\ IF o = "ok"
           THEN Logged(RunEvent(r, "TRIAGE_FAILED", [error |-> runs[r].error]))
           ELSE audit' = audit
        /\ runs' = [runs EXCEPT ![r].pc = "failed",
                                ![r].raised = IF o = "ok" THEN runs[r].error ELSE "store"]
        /\ failures' = IF o = "fail" THEN failures + 1 ELSE failures
    /\ jobs' = JobsAfter(r, FALSE)
    /\ response' = Answered(r, 500)
    /\ UNCHANGED <<tickets, users, configs, suggestions, env, nDispatch, nOps>>

\* ------------------------------------------------------- ticket routes
\* A request is served in one step; a store failure can hit the ticket save
\* (nothing is written) or the audit save after it (the ticket is written).
RouteOutcomes == IF CanFail THEN {"ok", "fail_save", "fail_audit"} ELSE {"ok"}

UserIds == {users[i].id : i \in 1..Len(users)}

UserOf(id) == users[CHOOSE i \in 1..Len(users) : users[i].id = id]

AgentIds == {id \in UserIds : UserOf(id).role \in {"agent", "admin"}}

\* who can authenticate: the system user's passwordHash 'system' matches no password
LoginIds == UserIds \ {SystemUserId}

\* requireAgent
AgentLogins == AgentIds \ {SystemUserId}

\* what a handler leaves behind: nothing unless it got past its checks (code
\* 200 or a failure on the way), the ticket if its save succeeded, the audit
\* event if also the audit save succeeded
Served(op, t, actor, rejected, newTicket, action, meta, o) ==
    /\ nOps < MaxOps
    /\ nOps' = nOps + 1
    /\ IF rejected # 0
       THEN /\ response' = Response(op, t, rejected)
            /\ UNCHANGED <<tickets, audit, failures>>
       ELSE /\ response' = Response(op, t, IF o = "ok" THEN 200 ELSE 500)
            /\ tickets' = IF o = "fail_save" THEN tickets ELSE [tickets EXCEPT ![t] = newTicket]
            /\ IF o = "ok"
               THEN Logged(AuditEvent(t, -(nOps + 1), IF UserOf(actor).role = "user" THEN "user" ELSE "agent",
                                                      action, meta, 0))
               ELSE audit' = audit
            /\ failures' = IF o = "ok" THEN failures ELSE failures + 1
    /\ UNCHANGED <<users, configs, suggestions, runs, jobs, env, nDispatch>>

MutCanReopen(status) == status \in {"resolved", "closed", "waiting_human"}

CanReopen(status) == status \in {"resolved", "closed"}

\* POST /api/tickets/:id/reopen (requireUser)
Reopen(t, actor) ==
    \E o \in RouteOutcomes :
        Served("reopen", t, actor,
               IF ~tickets[t].exists THEN 404
               ELSE IF UserOf(actor).role = "user" /\ tickets[t].createdBy # actor THEN 403
               ELSE IF ~CanReopen(tickets[t].status) THEN 400
               ELSE 0,
               [tickets[t] EXCEPT !.status = "waiting_human", !.resolvedAt = FALSE, !.closedAt = FALSE],
               "TICKET_REOPENED", [reopenedBy |-> actor], o)

\* PATCH /api/tickets/:id/status (requireAgent)
PatchStatus(t, actor, status) ==
    \E o \in RouteOutcomes :
        Served("status", t, actor,
               IF status \notin Statuses THEN 400
               ELSE IF ~tickets[t].exists THEN 404
               ELSE 0,
               [tickets[t] EXCEPT !.status = status,
                                  !.resolvedAt = IF status = "resolved" THEN TRUE ELSE @,
                                  !.closedAt = IF status = "closed" THEN TRUE ELSE @],
               "STATUS_CHANGED", [oldStatus |-> tickets[t].status, newStatus |-> status], o)

\* the content of a reply written by an agent (req.body.content), in the
\* shape of a draft so that reply contents can be compared
RequestContent == [template |-> "reply", references |-> <<>>]

\* POST /api/tickets/:id/reply (requireAgent)
AddReply(t, actor, isInternal) ==
    \E o \in RouteOutcomes :
        Served("reply", t, actor,
               IF ~tickets[t].exists THEN 404 ELSE 0,
               [tickets[t] EXCEPT !.replies = Append(@, Reply(actor, RequestContent, isInternal)),
                                  !.status = IF @ \in {"resolved", "closed"} THEN "waiting_human" ELSE @],
               "REPLY_SENT", [isInternal |-> isInternal], o)

\* POST /api/tickets/:id/assign (requireAgent); assigneeId may be absent
Assign(t, actor, assigneeId) ==
    \E o \in RouteOutcomes :
        Served("assign", t, actor,
               IF ~tickets[t].exists THEN 404
               ELSE IF assigneeId # None /\ assigneeId \notin AgentIds THEN 400
               ELSE 0,
               [tickets[t] EXCEPT !.assignee = assigneeId,
                                  !.status = IF @ = "open" THEN "triaged" ELSE @],
               "TICKET_ASSIGNED", [assigneeId |-> assigneeId], o)

\* --------------------------------------------------- suggestion routes
SuggestionIds == 1..Len(suggestions)

SuggestionResponse(op, s, code) ==
    [op |-> op, ticketId |-> IF s \in SuggestionIds THEN suggestions[s].ticketId ELSE 0,
     suggestionId |-> s, code |-> code]

\* the awaited writes of acceptSuggestion that can fail, in order
AcceptOutcomes ==
    IF CanFail THEN {"ok", "fail_suggestion", "fail_ticket", "fail_audit"} ELSE {"ok"}

MutAccepted(sugg, agentId) == [sugg EXCEPT !.accepted = <<TRUE>>, !.acceptedAt = TRUE]

\* acceptSuggestion: the fields set on the suggestion
Accepted(sugg, agentId) ==
    [sugg EXCEPT !.accepted = <<TRUE>>, !.acceptedBy = agentId, !.acceptedAt = TRUE]

MutWithAcceptedReply(replies, sugg, agentId) ==
    IF sugg.accepted = <<>> /\ ~sugg.autoClosed
    THEN Append(replies, Reply(agentId, sugg.draftReply, FALSE))
    ELSE replies

\* acceptSuggestion: ticket.replies.push(newReply), whatever the suggestion's state
WithAcceptedReply(replies, sugg, agentId) ==
    Append(replies, Reply(agentId, sugg.draftReply, FALSE))

\* POST /api/agent/suggestion/:id/accept (requireAgent) -> acceptSuggestion:
\* the suggestion is saved, then the reply is pushed and the ticket saved (if
\* the ticket is found), then SUGGESTION_ACCEPTED is logged
AcceptSuggestion(s, agentId) ==
    /\ nOps < MaxDecisions
    /\ nOps' = nOps + 1
    /\ IF s \notin SuggestionIds
       THEN /\ response' = SuggestionResponse("accept", s, 404)
            /\ UNCHANGED <<tickets, suggestions, audit, failures>>
       ELSE \E o \in AcceptOutcomes :
            LET sugg == suggestions[s]
                t == sugg.ticketId
            IN  /\ o = "fail_ticket" => tickets[t].exists
                /\ response' = SuggestionResponse("accept", s, IF o = "ok" THEN 200 ELSE 500)
                /\ suggestions' = IF o = "fail_suggestion" THEN suggestions
                                  ELSE [suggestions EXCEPT ![s] = Accepted(sugg, agentId)]
                /\ tickets' = IF o \in {"ok", "fail_audit"} /\ tickets[t].exists
                              THEN [tickets EXCEPT ![t].replies = WithAcceptedReply(@, sugg, agentId)]
                              ELSE tickets
                /\ IF o = "ok"
                   THEN Logged(AuditEvent(t, sugg.traceId, "agent", "SUGGESTION_ACCEPTED",
                                                          [suggestionId |-> s, agentId |-> agentId], 0))
                   ELSE audit' = audit
                /\ failures' = IF o = "ok" THEN failures ELSE failures + 1
    /\ UNCHANGED <<users, configs, runs, jobs, env, nDispatch>>

MutRejected(sugg, agentId) ==
    [sugg EXCEPT !.accepted = <<TRUE>>, !.acceptedBy = agentId, !.acceptedAt = TRUE]

\* rejectSuggestion: the fields set on the suggestion
Rejected(sugg, agentId) ==
    [sugg EXCEPT !.accepted = <<FALSE>>, !.acceptedBy = agentId, !.acceptedAt = TRUE]

\* POST /api/agent/suggestion/:id/reject (requireAgent) -> rejectSuggestion:
\* the suggestion is saved, then SUGGESTION_REJECTED is logged with the reason
\* ('' when the request carries none)
RejectSuggestion(s, agentId, reason) ==
    /\ nOps < MaxDecisions
    /\ nOps' = nOps + 1
    /\ IF s \notin SuggestionIds
       THEN /\ response' = SuggestionResponse("reject", s, 404)
            /\ UNCHANGED <<suggestions, audit, failures>>
       ELSE \E o \in RouteOutcomes :
            LET sugg == suggestions[s]
            IN  /\ response' = SuggestionResponse("reject", s, IF o = "ok" THEN 200 ELSE 500)
                /\ suggestions' = IF o = "fail_save" THEN suggestions
                                  ELSE [suggestions EXCEPT ![s] = Rejected(sugg, agentId)]
                /\ IF o = "ok"
                   THEN Logged(AuditEvent(sugg.ticketId, sugg.traceId, "agent", "SUGGESTION_REJECTED",
                                                          [suggestionId |-> s, agentId |-> agentId,
                                                           reason |-> reason], 0))
                   ELSE audit' = audit
                /\ failures' = IF o = "ok" THEN failures ELSE failures + 1
    /\ UNCHANGED <<tickets, users, configs, runs, jobs, env, nDispatch>>

\* ------------------------------------------------------- other requests
\* POST /api/tickets (requireUser): the ticket is saved, TICKET_CREATED is
\* logged under a fresh traceId and addTriageJob is called with that traceId.
\* Without the queue the handler answers only after the run it awaits.
CreateTicket(t, actor, text) ==
    /\ nOps < MaxOps
    /\ nDispatch < MaxDispatch
    /\ ~tickets[t].exists
    /\ \A x \in TicketIds : x < t => tickets[x].exists
    /\ nOps' = nOps + 1
    /\ \E o \in RouteOutcomes :
        /\ tickets' = IF o = "fail_save" THEN tickets
                      ELSE [tickets EXCEPT ![t] = NewTicket(text, actor)]
        /\ IF o = "ok"
           THEN Logged(AuditEvent(t, nDispatch + 1, "user", "TICKET_CREATED",
                                                  [category |-> "other"], 0))
           ELSE audit' = audit
        /\ failures' = IF o = "ok" THEN failures ELSE failures + 1
        /\ nDispatch' = IF o = "ok" THEN nDispatch + 1 ELSE nDispatch
        /\ jobs' = IF o = "ok" /\ env.queue
                   THEN Append(jobs, [ticketId |-> t, traceId |-> nDispatch + 1,
                                      attemptsMade |-> 0, state |-> "waiting"])
                   ELSE jobs
        /\ runs' = IF o = "ok" /\ ~env.queue
                   THEN Append(runs, NewRun(t, nDispatch + 1, 0))
                   ELSE runs
        /\ response' = IF o # "ok" THEN Response("create", t, 500)
                       ELSE IF env.queue THEN Response("create", t, 201)
                       ELSE response
    /\ UNCHANGED <<users, configs, suggestions, env>>

\* PUT /api/config (requireAdmin) with a confidenceThreshold: the first Config
\* document, or a new one, is changed and saved; nothing is logged
UpdateConfig(actor, threshold) ==
    /\ nOps < MaxOps
    /\ nOps' = nOps + 1
    /\ IF UserOf(actor).role # "admin"
       THEN /\ response' = Response("config", 0, 403)
            /\ UNCHANGED <<configs, failures>>
       ELSE \E o \in IF CanFail THEN {"ok", "fail_save"} ELSE {"ok"} :
            /\ response' = Response("config", 0, IF o = "ok" THEN 200 ELSE 500)
            /\ configs' = IF o # "ok" THEN configs
                          ELSE IF configs = <<>>
                               THEN <<[DefaultConfig EXCEPT !.confidenceThreshold = threshold]>>
                               ELSE [configs EXCEPT ![1].confidenceThreshold = threshold]
            /\ failures' = IF o = "ok" THEN failures ELSE failures + 1
    /\ UNCHANGED <<tickets, users, suggestions, audit, runs, jobs, env, nDispatch>>

\* PUT /api/config/thresholds (requireAdmin) with global and autoCloseEnabled:
\* the first Config document, or a new one, is changed and saved
UpdateThresholds(actor, global, autoCloseEnabled) ==
    /\ nOps < MaxOps
    /\ nOps' = nOps + 1
    /\ IF UserOf(actor).role # "admin"
       THEN /\ response' = Response("thresholds", 0, 403)
            /\ UNCHANGED <<configs, failures>>
       ELSE \E o \in IF CanFail THEN {"ok", "fail_save"} ELSE {"ok"} :
            /\ response' = Response("thresholds", 0, IF o = "ok" THEN 200 ELSE 500)
            /\ configs' = IF o # "ok" THEN configs
                          ELSE IF configs = <<>>
                               THEN <<[DefaultConfig EXCEPT !.confidenceThreshold = global,
                                                            !.autoCloseEnabled = autoCloseEnabled]>>
                               ELSE [configs EXCEPT ![1].confidenceThreshold = global,
                                                    ![1].autoCloseEnabled = autoCloseEnabled]
            /\ failures' = IF o = "ok" THEN failures ELSE failures + 1
    /\ UNCHANGED <<tickets, users, suggestions, audit, runs, jobs, env, nDispatch>>

\* GET /api/config (requireUser): a default document is created when none is found
GetConfig(actor) ==
    /\ nOps < MaxOps
    /\ nOps' = nOps + 1
    /\ \E o \in IF CanFail THEN {"ok", "fail_save"} ELSE {"ok"} :
        /\ response' = Response("get config", 0, IF o = "ok" THEN 200 ELSE 500)
        /\ configs' = IF o = "ok" /\ configs = <<>> THEN <<DefaultConfig>> ELSE configs
        /\ failures' = IF o = "ok" THEN failures ELSE failures + 1
    /\ UNCHANGED <<tickets, users, suggestions, audit, runs, jobs, env, nDispatch>>

\* ------------------------------------------------------------ the system
\* One triage run at a time: a request or a job is taken up when no run is
\* under way (a single worker, requests served one after the other).
Idle == ActiveRuns = {}

SerialDispatch(t) == Idle /\ Dispatch(t)

SerialWorkerTake(j) == Idle /\ WorkerTake(j)

Next ==
    \/ \E t \in TicketIds : SerialDispatch(t)
    \/ \E j \in 1..Len(jobs) : SerialWorkerTake(j)
    \/ \E r \in 1..Len(runs) : PlanFind(r)
    \/ \E r \in 1..Len(runs) : PlanLog(r)
    \/ \E r \in 1..Len(runs) : ClassifyLog(r)
    \/ \E r \in 1..Len(runs) : ClassifySave(r)
    \/ \E r \in 1..Len(runs) : RetrieveLog(r)
    \/ \E r \in 1..Len(runs) : DraftLog(r)
    \/ \E r \in 1..Len(runs) : ConfigFind(r)
    \/ \E r \in 1..Len(runs) : ConfigSave(r)
    \/ \E r \in 1..Len(runs) : SuggestionSave(r)
    \/ \E r \in 1..Len(runs) : SystemUserFind(r)
    \/ \E r \in 1..Len(runs) : SystemUserSave(r)
    \/ \E r \in 1..Len(runs) : AutoCloseSave(r)
    \/ \E r \in 1..Len(runs) : AutoCloseLog(r)
    \/ \E r \in 1..Len(runs) : FindAgents(r)
    \/ \E r \in 1..Len(runs) : CountWorkloads(r)
    \/ \E r \in 1..Len(runs) : AssignLog(r)
    \/ \E r \in 1..Len(runs) : HumanSave(r)
    \/ \E r \in 1..Len(runs) : ReplySentLog(r)
    \/ \E r \in 1..Len(runs) : CatchLog(r)

Spec == Init /\ [][Next]_vars

\* The ticket routes together with the pipeline, requests served between runs.
SerialReopen(t, a) == Idle /\ Reopen(t, a)

SerialPatchStatus(t, a, s) == Idle /\ PatchStatus(t, a, s)

SerialAddReply(t, a, i) == Idle /\ AddReply(t, a, i)

SerialAssign(t, a, x) == Idle /\ Assign(t, a, x)

NextTickets ==
    \/ Next
    \/ \E t \in TicketIds, a \in LoginIds : SerialReopen(t, a)
    \/ \E t \in TicketIds, a \in AgentLogins, s \in Statuses \cup {"bogus"} : SerialPatchStatus(t, a, s)
    \/ \E t \in TicketIds, a \in AgentLogins, i \in BOOLEAN : SerialAddReply(t, a, i)
    \/ \E t \in TicketIds, a \in AgentLogins, x \in UserIds \cup {None} : SerialAssign(t, a, x)

\* no store faults, and a configuration under which the ticket's run auto-closes
\* (threshold 0.71) or none, under which it is handed to a human (default 0.78)
InitTickets ==
    /\ Init
    /\ ~env.faults
    /\ \A i \in 1..Len(configs) : configs[i].confidenceThreshold = 71

SpecTickets == InitTickets /\ [][NextTickets]_vars

\* Every operation of the system, requests served between runs: the pipeline,
\* the ticket routes, the suggestion routes, ticket creation and configuration.
SerialAcceptSuggestion(s, a) == Idle /\ AcceptSuggestion(s, a)

SerialRejectSuggestion(s, a, reason) == Idle /\ RejectSuggestion(s, a, reason)

SerialCreateTicket(t, a, x) == Idle /\ CreateTicket(t, a, x)

SerialUpdateConfig(a, c) == Idle /\ UpdateConfig(a, c)

NextOps ==
    \/ Next
    \/ \E t \in TicketIds, a \in {"u1"} : SerialReopen(t, a)
    \/ \E t \in TicketIds, a \in {"a1"}, s \in {"open", "closed"} : SerialPatchStatus(t, a, s)
    \/ \E t \in TicketIds, a \in {"a1"}, i \in {FALSE} : SerialAddReply(t, a, i)
    \/ \E t \in TicketIds, a \in {"a1"}, x \in {"a2"} : SerialAssign(t, a, x)
    \/ \E s \in 1..(Len(suggestions) + 1), a \in AgentLogins : SerialAcceptSuggestion(s, a)
    \/ \E s \in 1..(Len(suggestions) + 1), a \in AgentLogins, reason \in {"", "wrong"} :
            SerialRejectSuggestion(s, a, reason)
    \/ \E t \in TicketIds, a \in {"u2"}, x \in Texts : SerialCreateTicket(t, a, x)
    \/ \E a \in {"a1", "a2"}, c \in {71, 78} : SerialUpdateConfig(a, c)

\* an agent and an admin, no store faults, and either no queue and no stored
\* configuration (the run hands the ticket to a human) or both (it auto-closes)
InitOps ==
    /\ \E x \in Texts : tickets = [t \in TicketIds |-> IF t = 1 THEN NewTicket(x, "u1") ELSE NoTicket]
    /\ users = <<NewUser("u1", "user"), NewUser("u2", "user"), NewUser("a1", "agent"),
                 NewUser("a2", "admin")>>
    /\ \/ configs = <<>> /\ env = [queue |-> FALSE, faults |-> FALSE, fast |-> FALSE, kb |-> Articles]
       \/ configs = <<[DefaultConfig EXCEPT !.confidenceThreshold = 71]>>
            /\ env = [queue |-> TRUE, faults |-> FALSE, fast |-> FALSE, kb |-> Articles]
    /\ suggestions = <<>>
    /\ audit = <<>>
    /\ runs = <<>>
    /\ jobs = <<>>
    /\ nDispatch = 0
    /\ failures = 0
    /\ nOps = 0
    /\ response = NoResponse

SpecOps == InitOps /\ [][NextOps]_vars

\* Ticket creation and triage with store and service faults, with or without
\* the queue.
NextCreate ==
    \/ Next
    \/ \E t \in TicketIds, a \in {"u2"}, x \in Texts : SerialCreateTicket(t, a, x)

InitCreate ==
    /\ \E x \in Texts : tickets = [t \in TicketIds |-> IF t = 1 THEN NewTicket(x, "u1") ELSE NoTicket]
    /\ users = <<NewUser("u1", "user"), NewUser("u2", "user"), NewUser("a1", "agent")>>
    /\ configs \in {<<>>, <<[DefaultConfig EXCEPT !.confidenceThreshold = 71]>>}
    /\ env \in [queue : BOOLEAN, faults : {TRUE}, fast : {FALSE}, kb : {Articles}]
    /\ suggestions = <<>>
    /\ audit = <<>>
    /\ runs = <<>>
    /\ jobs = <<>>
    /\ nDispatch = 0
    /\ failures = 0
    /\ nOps = 0
    /\ response = NoResponse

SpecCreate == InitCreate /\ [][NextCreate]_vars

\* The same system with a store that can answer within the clock's resolution,
\* so that events built one after the other can carry the same timestamp.
InitAudit ==
    /\ \E x \in Texts : tickets = [t \in TicketIds |-> IF t = 1 THEN NewTicket(x, "u1") ELSE NoTicket]
    /\ users = <<NewUser("u1", "user"), NewUser("u2", "user"), NewUser("a1", "agent"),
                 NewUser("a2", "admin")>>
    /\ \/ configs = <<>> /\ env = [queue |-> FALSE, faults |-> FALSE, fast |-> TRUE, kb |-> Articles]
       \/ configs = <<[DefaultConfig EXCEPT !.confidenceThreshold = 71]>>
            /\ env = [queue |-> TRUE, faults |-> FALSE, fast |-> TRUE, kb |-> Articles]
    /\ suggestions = <<>>
    /\ audit = <<>>
    /\ runs = <<>>
    /\ jobs = <<>>
    /\ nDispatch = 0
    /\ failures = 0
    /\ nOps = 0
    /\ response = NoResponse

SpecAudit == InitAudit /\ [][NextOps]_vars

\* Configuration requests that arrive while a run is under way.
NextConfig ==
    \/ Next
    \/ \E a \in {"a1", "a2"}, c \in {50, 78} : UpdateConfig(a, c)
    \/ \E a \in {"a2"}, g \in {50, 78}, e \in BOOLEAN : UpdateThresholds(a, g, e)
    \/ \E a \in {"u1"} : GetConfig(a)

InitConfig ==
    /\ \E x \in Texts : tickets = [t \in TicketIds |-> IF t = 1 THEN NewTicket(x, "u1") ELSE NoTicket]
    /\ users = <<NewUser("u1", "user"), NewUser("a1", "agent"), NewUser("a2", "admin")>>
    /\ configs \in {<<>>, <<[DefaultConfig EXCEPT !.confidenceThreshold = 71]>>}
    /\ env \in [queue : BOOLEAN, faults : {FALSE}, fast : {FALSE}, kb : {Articles}]
    /\ suggestions = <<>>
    /\ audit = <<>>
    /\ runs = <<>>
    /\ jobs = <<>>
    /\ nDispatch = 0
    /\ failures = 0
    /\ nOps = 0
    /\ response = NoResponse

SpecConfig == InitConfig /\ [][NextConfig]_vars

\* Overlapping runs: nothing waits for a run to finish. The ticket was created
\* by POST /api/tickets, whose triage (trace 0) has been handed to addTriageJob
\* and has not yet begun; a manual trigger arrives while it is queued or runs.
TicketCreated(t) ==
    [AuditEvent(t, 0, "user", "TICKET_CREATED", [category |-> "other"], 0) EXCEPT !.timestamp = 1]

NextConc ==
    \/ Next
    \/ \E t \in {1} : Dispatch(t)
    \/ \E j \in 1..Len(jobs) : WorkerTake(j)

InitConc ==
    /\ \E x \in Texts : tickets = [t \in TicketIds |-> IF t = 1 THEN NewTicket(x, "u1") ELSE NoTicket]
    /\ users = <<NewUser("u1", "user"), NewUser("a1", "agent"), NewUser("a2", "admin")>>
    /\ configs \in {<<>>, <<[DefaultConfig EXCEPT !.confidenceThreshold = 71]>>}
    /\ env \in [queue : BOOLEAN, faults : {FALSE}, fast : {FALSE}, kb : {Articles}]
    /\ suggestions = <<>>
    /\ audit = <<TicketCreated(1)>>
    /\ IF env.queue
       THEN /\ jobs = <<[ticketId |-> 1, traceId |-> 0, attemptsMade |-> 0, state |-> "waiting"]>>
            /\ runs = <<>>
       ELSE /\ jobs = <<>>
            /\ runs = <<NewRun(1, 0, 0)>>
    /\ nDispatch = 0
    /\ failures = 0
    /\ nOps = 0
    /\ response = NoResponse

SpecConc == InitConc /\ [][NextConc]_vars

\* Assignment: the user collection and the workload the run meets vary.
\* The second ticket is absent, or is another ticket already assigned.
AssignedTicket(status, assignee) ==
    [NewTicket(<<>>, "u1") EXCEPT !.status = status, !.assignee = assignee]

Inactive(u) == [u EXCEPT !.isActive = FALSE]

AssignScenarios ==
    {[users |-> <<NewUser("u1", "user"), NewUser("u2", "user"), NewUser("a1", "agent")>>,
      other |-> NoTicket],
     [users |-> <<NewUser("u1", "user"), NewUser("u2", "user")>>,
      other |-> NoTicket],
     [users |-> <<NewUser("u1", "user"), NewUser("a1", "agent"), NewUser("a2", "admin")>>,
      other |-> AssignedTicket("waiting_human", "a1")],
     [users |-> <<NewUser("u1", "user"), NewUser("a1", "agent"), NewUser("a2", "admin")>>,
      other |-> AssignedTicket("triaged", "a2")],
     [users |-> <<NewUser("u1", "user"), Inactive(NewUser("a1", "agent")), NewUser("a2", "agent")>>,
      other |-> AssignedTicket("resolved", "a2")],
     [users |-> <<NewUser("u1", "user"), NewUser("a1", "agent"), NewUser(SystemUserId, "agent")>>,
      other |-> AssignedTicket("waiting_human", "a1")]}

InitAssign ==
    /\ \E x \in Texts, sc \in AssignScenarios :
        /\ tickets = [t \in TicketIds |-> IF t = 1 THEN NewTicket(x, "u1") ELSE sc.other]
        /\ users = sc.users
    /\ configs \in {<<>>, <<[DefaultConfig EXCEPT !.confidenceThreshold = 71]>>}
    /\ suggestions = <<>>
    /\ audit = <<>>
    /\ runs = <<>>
    /\ jobs = <<>>
    /\ env \in [queue : BOOLEAN, faults : {FALSE}, fast : {FALSE}, kb : {Articles}]
    /\ nDispatch = 0
    /\ failures = 0
    /\ nOps = 0
    /\ response = NoResponse

SpecAssign == InitAssign /\ [][Next]_vars

\* Texts: the ticket's text ranges over AllTexts, in a deployment without the
\* queue and without a stored configuration, or with both.
InitTexts ==
    /\ \E x \in AllTexts : tickets = [t \in TicketIds |-> IF t = 1 THEN NewTicket(x, "u1") ELSE NoTicket]
    /\ users = <<NewUser("u1", "user"), NewUser("u2", "user"), NewUser("a1", "agent")>>
    /\ \/ configs = <<>> /\ env = [queue |-> FALSE, faults |-> FALSE, fast |-> FALSE, kb |-> Articles]
       \/ configs = <<[DefaultConfig EXCEPT !.confidenceThreshold = 71]>>
            /\ env = [queue |-> TRUE, faults |-> FALSE, fast |-> FALSE, kb |-> Articles]
    /\ suggestions = <<>>
    /\ audit = <<>>
    /\ runs = <<>>
    /\ jobs = <<>>
    /\ nDispatch = 0
    /\ failures = 0
    /\ nOps = 0
    /\ response = NoResponse

SpecTexts == InitTexts /\ [][Next]_vars

\* A stored ticket of any text, filed under 'other' or under 'billing', with
\* or without a stored configuration, with the queue and with store and
\* service faults.
InitCategory ==
    /\ \E x \in AllTexts, c \in {"other", "billing"} :
            tickets = [t \in TicketIds |-> IF t = 1 THEN [NewTicket(x, "u1") EXCEPT !.category = c]
                                                   ELSE NoTicket]
    /\ users = <<NewUser("u1", "user"), NewUser("u2", "user"), NewUser("a1", "agent")>>
    /\ configs \in {<<>>, <<[DefaultConfig EXCEPT !.confidenceThreshold = 71]>>}
    /\ env = [queue |-> TRUE, faults |-> TRUE, fast |-> FALSE, kb |-> Articles]
    /\ suggestions = <<>>
    /\ audit = <<>>
    /\ runs = <<>>
    /\ jobs = <<>>
    /\ nDispatch = 0
    /\ failures = 0
    /\ nOps = 0
    /\ response = NoResponse

SpecCategory == InitCategory /\ [][Next]_vars

\* queries with a stop word or a word of two letters
SearchTexts ==
    {<<"the", "help">>, <<"help", "for", "refund">>, <<"ok", "help", "help">>, <<"and", "ok">>}

\* A stored ticket of any text and any of the article collections, no stored
\* configuration, no faults.
InitSearch ==
    /\ \E x \in AllTexts \cup SearchTexts :
            tickets = [t \in TicketIds |-> IF t = 1 THEN NewTicket(x, "u1") ELSE NoTicket]
    /\ users = <<NewUser("u1", "user"), NewUser("u2", "user"), NewUser("a1", "agent")>>
    /\ configs = <<>>
    /\ env \in [queue : BOOLEAN, faults : {FALSE}, fast : {FALSE}, kb : Corpora]
    /\ suggestions = <<>>
    /\ audit = <<>>
    /\ runs = <<>>
    /\ jobs = <<>>
    /\ nDispatch = 0
    /\ failures = 0
    /\ nOps = 0
    /\ response = NoResponse

SpecSearch == InitSearch /\ [][Next]_vars

\* ============================================================ properties
RunIds == 1..Len(runs)

\* the audit events one invocation of triageTicket appended, in append order
RunTrail(r) == SelectSeq(audit, LAMBDA e : e.run = r)

\* the audit events stored under one traceId, in append order
TraceTrail(d) == SelectSeq(audit, LAMBDA e : e.traceId = d)

ActionsOf(trail) == [i \in 1..Len(trail) |-> trail[i].action]

CountOf(trail, action) == Cardinality({i \in 1..Len(trail) : trail[i].action = action})

IsPrefix(p, s) == Len(p) <= Len(s) /\ \A i \in 1..Len(p) : p[i] = s[i]

\* C1: a run that reached the decision decided auto_closed exactly when
\* autoCloseEnabled is set and its confidence is at least the configured
\* confidenceThreshold (equality included); with autoCloseEnabled unset it
\* decided assigned_to_human. The decision is read off the stored suggestion
\* and off the returned result.
DecisionFollowsThreshold ==
    /\ \A i \in 1..Len(suggestions) :
        suggestions[i].autoClosed <=>
            (StoredConfig.autoCloseEnabled
                /\ suggestions[i].confidence >= StoredConfig.confidenceThreshold)
    /\ \A r \in RunIds : runs[r].pc = "done" =>
        IF StoredConfig.autoCloseEnabled
        THEN runs[r].decision = "auto_closed" <=>
                runs[r].classification.confidence >= StoredConfig.confidenceThreshold
        ELSE runs[r].decision = "assigned_to_human"

\* a run auto-closed with its confidence equal to the threshold
BoundaryAutoClosed ==
    \E r \in RunIds :
        /\ runs[r].pc = "done"
        /\ runs[r].decision = "auto_closed"
        /\ runs[r].classification.confidence = StoredConfig.confidenceThreshold

\* C2: the threshold a run compares its confidence against is the one
\* configured for the predicted category: a suggestion is auto-closed exactly
\* when autoCloseEnabled is set and its confidence is at least
\* categoryThresholds[predictedCategory].
DecisionFollowsCategoryThreshold ==
    \A i \in 1..Len(suggestions) :
        suggestions[i].autoClosed <=>
            (StoredConfig.autoCloseEnabled
                /\ suggestions[i].confidence >=
                        StoredConfig.categoryThresholds[suggestions[i].predictedCategory])

PipelineActions ==
    {"TRIAGE_STARTED", "AGENT_CLASSIFIED", "KB_RETRIEVED", "DRAFT_GENERATED",
     "AUTO_CLOSED", "ASSIGNED_TO_HUMAN"}

PipelineOrders ==
    {<<"TRIAGE_STARTED", "AGENT_CLASSIFIED", "KB_RETRIEVED", "DRAFT_GENERATED", x>> :
        x \in {"AUTO_CLOSED", "ASSIGNED_TO_HUMAN"}}

\* the pipeline-step events of a trail, in order
PipelineTrail(trail) == ActionsOf(SelectSeq(trail, LAMBDA e : e.action \in PipelineActions))

\* C3: all events a run appends carry its traceId and ticket; its pipeline-step
\* events come in pipeline order with none repeated or skipped, and a run that
\* succeeded has appended all four step events followed by exactly one of
\* AUTO_CLOSED / ASSIGNED_TO_HUMAN.
RunTrailInPipelineOrder ==
    \A r \in RunIds :
        /\ \A i \in 1..Len(RunTrail(r)) :
            /\ RunTrail(r)[i].traceId = runs[r].traceId
            /\ RunTrail(r)[i].ticketId = runs[r].ticketId
        /\ \E full \in PipelineOrders : IsPrefix(PipelineTrail(RunTrail(r)), full)
        /\ runs[r].pc = "done" => PipelineTrail(RunTrail(r)) \in PipelineOrders

\* a run succeeded on the human branch, REPLY_SENT following ASSIGNED_TO_HUMAN
HumanRunCompleted ==
    \E r \in RunIds :
        /\ runs[r].pc = "done"
        /\ runs[r].decision = "assigned_to_human"
        /\ CountOf(RunTrail(r), "REPLY_SENT") = 1

\* C4: once a run has failed, its trace holds exactly one TRIAGE_FAILED event,
\* that event is the last one of the trace, and the error thrown to the caller
\* is the error that made the run fail.
FailedRunLoggedOnceAndLast ==
    \A r \in RunIds : runs[r].pc = "failed" =>
        LET trail == TraceTrail(runs[r].traceId)
        IN  /\ CountOf(trail, "TRIAGE_FAILED") = 1
            /\ trail[Len(trail)].action = "TRIAGE_FAILED"
            /\ runs[r].raised = runs[r].error

\* C5: no stored suggestion belongs to a run that failed.
NoSuggestionOfFailedRun ==
    \A i \in 1..Len(suggestions) : runs[suggestions[i].run].pc # "failed"

\* the last invocation started for the ticket of run r is r itself
LatestRunOnTicket(r) ==
    \A q \in RunIds : runs[q].ticketId = runs[r].ticketId => q <= r

\* C6: after a failed run (and before any later run on the ticket) the
\* ticket's status and assignee are what the run found when it loaded the ticket.
FailedRunLeavesTicket ==
    \A r \in RunIds :
        (runs[r].pc = "failed" /\ LatestRunOnTicket(r) /\ tickets[runs[r].ticketId].exists) =>
            /\ tickets[runs[r].ticketId].status = runs[r].before.status
            /\ tickets[runs[r].ticketId].assignee = runs[r].before.assignee

\* the tickets addTriageJob was called for, by traceId (from the job of a
\* queued dispatch, from the run of an inline one)
DispatchedTicket(d) ==
    IF \E j \in 1..Len(jobs) : jobs[j].traceId = d
    THEN jobs[CHOOSE j \in 1..Len(jobs) : jobs[j].traceId = d].ticketId
    ELSE runs[CHOOSE r \in RunIds : runs[r].traceId = d].ticketId

Started(d) == \E r \in RunIds : runs[r].traceId = d

\* the trails one invocation of triageTicket can leave under its traceId
OneRunTrails ==
    LET auto == <<"TRIAGE_STARTED", "AGENT_CLASSIFIED", "KB_RETRIEVED", "DRAFT_GENERATED",
                  "AUTO_CLOSED">>
        human == <<"TRIAGE_STARTED", "AGENT_CLASSIFIED", "KB_RETRIEVED", "DRAFT_GENERATED",
                   "ASSIGNED_TO_HUMAN", "REPLY_SENT">>
        cut == {SubSeq(auto, 1, n) : n \in 0..4} \cup {SubSeq(human, 1, n) : n \in 0..5}
    IN  {auto, human} \cup cut \cup {Append(p, "TRIAGE_FAILED") : p \in cut}

SystemReplies(t) ==
    Cardinality({i \in 1..Len(tickets[t].replies) : tickets[t].replies[i].author = SystemUserId})

\* what the inline path leaves behind for a dispatch: the events of a single
\* invocation, at most one suggestion, and on each ticket no more system
\* replies than dispatches for it
AsRunOnce(d) ==
    /\ ActionsOf(TraceTrail(d)) \in OneRunTrails
    /\ Cardinality({i \in 1..Len(suggestions) : suggestions[i].traceId = d}) <= 1
    /\ SystemReplies(DispatchedTicket(d)) <=
            Cardinality({e \in 1..nDispatch : Started(e) /\ DispatchedTicket(e) = DispatchedTicket(d)})

\* C7: with or without the queue, for a succeeding and for a failing pipeline
\* alike, a dispatch leaves behind what a single inline call of triageTicket
\* leaves: the audit events of one invocation under its traceId, at most one
\* suggestion, at most one system reply on the ticket.
QueueAsInline == \A d \in 1..nDispatch : Started(d) => AsRunOnce(d)

\* C8: a job is recorded as permanently failed after as many attempts as
\* agentSettings.maxRetries of the configuration allows (read either as the
\* number of attempts or as the number of re-attempts after the first).
PermanentFailureAfterMaxRetries ==
    \A j \in 1..Len(jobs) : jobs[j].state = "failed" =>
        jobs[j].attemptsMade \in {StoredConfig.maxRetries, StoredConfig.maxRetries + 1}

Rank(status) ==
    CASE status = "open" -> 0
      [] status \in {"triaged", "waiting_human"} -> 1
      [] status \in {"resolved", "closed"} -> 2

ReopenServed == nOps' = nOps + 1 /\ response'.op = "reopen"

\* C9: a ticket's status never moves back along open -> triaged/waiting_human
\* -> resolved/closed, except from resolved/closed to waiting_human by reopen.
StatusMovesForward ==
    [][\A t \in TicketIds :
        \/ Rank(tickets'[t].status) >= Rank(tickets[t].status)
        \/ /\ ReopenServed
           /\ response'.ticketId = t
           /\ tickets[t].status \in {"resolved", "closed"}
           /\ tickets'[t].status = "waiting_human"]_vars

\* C10: a reopen request answered 200 found the ticket resolved or closed,
\* set it to waiting_human with resolvedAt and closedAt cleared, changed nothing
\* else, and appended exactly one TICKET_REOPENED event for it; a reopen request
\* on an existing ticket in another status is rejected (400, or 403 for a user
\* who did not create it) and leaves tickets and audit log as they were.
ReopenContract ==
    [][ReopenServed =>
        LET t == response'.ticketId
        IN  /\ response'.code = 200 =>
                /\ tickets[t].status \in {"resolved", "closed"}
                /\ tickets' = [tickets EXCEPT ![t].status = "waiting_human",
                                              ![t].resolvedAt = FALSE,
                                              ![t].closedAt = FALSE]
                /\ Len(audit') = Len(audit) + 1
                /\ SubSeq(audit', 1, Len(audit)) = audit
                /\ audit'[Len(audit')].action = "TICKET_REOPENED"
                /\ audit'[Len(audit')].ticketId = t
            /\ (tickets[t].exists /\ tickets[t].status \notin {"resolved", "closed"}) =>
                /\ response'.code \in {400, 403}
                /\ tickets' = tickets
                /\ audit' = audit]_vars

\* a resolved ticket has been reopened
TicketReopened ==
    /\ response.op = "reopen"
    /\ response.code = 200
    /\ tickets[response.ticketId].status = "waiting_human"
    /\ ~tickets[response.ticketId].resolvedAt
    /\ audit # <<>>
    /\ audit[Len(audit)].action = "TICKET_REOPENED"

\* the reply a run pushes: the draft, authored by the system user, visible
DraftReplyOf(r) ==
    Reply(SystemUserId, Draft(runs[r].doc.text, runs[r].articles).draftReply, FALSE)

\* C11: a run that returns auto_closed has appended exactly one reply, the
\* visible draft, to the replies the ticket had, has set status resolved and
\* resolvedAt, has stored its suggestion with autoClosed set and referenced by
\* the ticket, and has left the assignee as it was.
AutoCloseEffects ==
    [][\A r \in 1..Len(runs) :
        (runs[r].pc = "ac_log" /\ runs'[r].pc = "done") =>
            LET k == tickets'[runs[r].ticketId]
            IN  /\ runs'[r].decision = "auto_closed"
                /\ k.replies = Append(runs[r].before.replies, DraftReplyOf(r))
                /\ ~k.replies[Len(k.replies)].isInternal
                /\ k.status = "resolved"
                /\ k.resolvedAt
                /\ k.sugg = runs[r].sugg
                /\ k.sugg \in 1..Len(suggestions')
                /\ suggestions'[k.sugg].run = r
                /\ suggestions'[k.sugg].autoClosed
                /\ k.assignee = runs[r].before.assignee]_vars

\* a run has auto-closed its ticket
AutoClosedRunCompleted ==
    \E r \in RunIds :
        /\ runs[r].pc = "done"
        /\ runs[r].decision = "auto_closed"
        /\ tickets[runs[r].ticketId].status = "resolved"
        /\ Len(tickets[runs[r].ticketId].replies) >= 1

\* C12: a run that returns assigned_to_human has appended exactly one reply,
\* the visible draft, to the replies the ticket had, has set status
\* waiting_human, has not touched resolvedAt, and has stored its suggestion
\* with autoClosed unset.
HumanBranchEffects ==
    [][\A r \in 1..Len(runs) :
        (runs[r].pc = "reply_log" /\ runs'[r].pc = "done") =>
            LET k == tickets'[runs[r].ticketId]
            IN  /\ runs'[r].decision = "assigned_to_human"
                /\ k.replies = Append(runs[r].before.replies, DraftReplyOf(r))
                /\ ~k.replies[Len(k.replies)].isInternal
                /\ k.status = "waiting_human"
                /\ k.resolvedAt = runs[r].before.resolvedAt
                /\ k.sugg = runs[r].sugg
                /\ k.sugg \in 1..Len(suggestions')
                /\ suggestions'[k.sugg].run = r
                /\ ~suggestions'[k.sugg].autoClosed]_vars

\* a run has handed its ticket to a human, the draft visible on the ticket
HumanRunReplied ==
    \E r \in RunIds :
        /\ runs[r].pc = "done"
        /\ runs[r].decision = "assigned_to_human"
        /\ tickets[runs[r].ticketId].status = "waiting_human"
        /\ tickets[runs[r].ticketId].replies # <<>>
        /\ ~suggestions[runs[r].sugg].autoClosed

AssignEvents(r) == SelectSeq(RunTrail(r), LAMBDA e : e.action = "ASSIGNED_TO_HUMAN")

\* C14: a run that returned assigned_to_human and started when no active
\* agent or admin existed has left the ticket without assignee and logged
\* ASSIGNED_TO_HUMAN with the reason no_agent_available.
NoAgentLeavesUnassigned ==
    \A r \in RunIds :
        (/\ runs[r].pc = "done"
         /\ runs[r].decision = "assigned_to_human"
         /\ runs[r].before.agents = {}
         /\ LatestRunOnTicket(r)) =>
            /\ tickets[runs[r].ticketId].assignee = None
            /\ Len(AssignEvents(r)) = 1
            /\ AssignEvents(r)[1].meta.reason = "no_agent_available"

CategoryIndex(c) == CHOOSE i \in 1..Len(Categories) : Categories[i] = c

Classified(r) == runs[r].classification # NoClassification

\* C15: the category a run's classification returns has the maximal keyword
\* score, and every category declared before it scores strictly less (among
\* equals the first declared is returned).
FirstDeclaredWinsTies ==
    \A r \in RunIds : Classified(r) =>
        LET text == tickets[runs[r].ticketId].text
            c == runs[r].classification.predictedCategory
        IN  /\ \A d \in CategorySet : Score(text, d) <= Score(text, c)
            /\ \A i \in 1..(CategoryIndex(c) - 1) : Score(text, Categories[i]) < Score(text, c)

\* C16: every classification a run obtained has its confidence within
\* [0.3, 0.95], and every stored suggestion a confidence within [0, 1].
ConfidenceInRange ==
    /\ \A r \in RunIds : Classified(r) =>
            /\ MinConfidence <= runs[r].classification.confidence
            /\ runs[r].classification.confidence <= MaxConfidence
    /\ \A i \in 1..Len(suggestions) :
            0 <= suggestions[i].confidence /\ suggestions[i].confidence <= 100

\* a suggestion is stored whose confidence was clamped up to the minimum (the
\* two best scores are one tenth apart)
ClampedConfidenceStored ==
    \E i \in 1..Len(suggestions) :
        LET text == tickets[suggestions[i].ticketId].text
        IN  /\ suggestions[i].confidence = MinConfidence
            /\ TopScore(text) - SecondScore(text) = 1

Position(seq, x) == CHOOSE p \in 1..Len(seq) : seq[p] = x

DraftEvents(r) == SelectSeq(RunTrail(r), LAMBDA e : e.action = "DRAFT_GENERATED")

\* C17: the citations of every draft a run generated are ids of the articles
\* passed to the draft, without duplicates, in the order of those articles,
\* at most three; none when no article was passed.
CitationsFromArticles ==
    \A r \in RunIds : \A n \in 1..Len(DraftEvents(r)) :
        LET cited == DraftEvents(r)[n].meta.citations
            passed == runs[r].articles
        IN  /\ \A i \in 1..Len(cited) : \E p \in 1..Len(passed) : passed[p] = cited[i]
            /\ \A i, j \in 1..Len(cited) : i < j =>
                    /\ cited[i] # cited[j]
                    /\ Position(passed, cited[i]) < Position(passed, cited[j])
            /\ Len(cited) <= RetrieveLimit
            /\ passed = <<>> => cited = <<>>

\* a draft cited three articles
ThreeArticlesCited ==
    \E r \in RunIds :
        /\ Len(DraftEvents(r)) = 1
        /\ Len(DraftEvents(r)[1].meta.citations) = 3
        /\ Len(runs[r].articles) = 3

LastEvent(log) == log[Len(log)]

\* C18: accepting an existing suggestion sets accepted = true with the acting
\* agent and a timestamp, appends the suggestion's draft to its ticket as one
\* reply by that agent that is not internal, appends one SUGGESTION_ACCEPTED
\* event under the suggestion's traceId, and leaves the ticket's status and
\* assignee as they were.
AcceptContract ==
    [][\A s \in SuggestionIds, agentId \in AgentLogins :
        AcceptSuggestion(s, agentId) /\ response'.code = 200 =>
            LET before == suggestions[s]
                after == suggestions'[s]
                t == before.ticketId
            IN  /\ after = [before EXCEPT !.accepted = <<TRUE>>, !.acceptedBy = agentId, !.acceptedAt = TRUE]
                /\ tickets'[t].replies =
                        Append(tickets[t].replies,
                               [author |-> agentId, content |-> before.draftReply, isInternal |-> FALSE])
                /\ tickets'[t].status = tickets[t].status
                /\ tickets'[t].assignee = tickets[t].assignee
                /\ Len(audit') = Len(audit) + 1
                /\ IsPrefix(audit, audit')
                /\ LastEvent(audit').action = "SUGGESTION_ACCEPTED"
                /\ LastEvent(audit').traceId = before.traceId
                /\ LastEvent(audit').ticketId = t
                /\ LastEvent(audit').meta.agentId = agentId]_vars

\* the suggestion of a finished run was accepted and its draft is on the ticket
SuggestionAccepted ==
    /\ response.op = "accept"
    /\ response.code = 200
    /\ \E s \in SuggestionIds :
        /\ response.suggestionId = s
        /\ suggestions[s].accepted = <<TRUE>>
        /\ suggestions[s].acceptedBy \in AgentLogins
        /\ \E i \in 1..Len(tickets[suggestions[s].ticketId].replies) :
            /\ tickets[suggestions[s].ticketId].replies[i].author = suggestions[s].acceptedBy
            /\ tickets[suggestions[s].ticketId].replies[i].content = suggestions[s].draftReply
        /\ LastEvent(audit).action = "SUGGESTION_ACCEPTED"
        /\ LastEvent(audit).traceId = suggestions[s].traceId

\* C19: rejecting an existing suggestion sets accepted = false, records the
\* rejecting actor on the suggestion and the reason in the one
\* SUGGESTION_REJECTED event it appends, and leaves every ticket as it was.
RejectContract ==
    [][\A s \in SuggestionIds, agentId \in AgentLogins, reason \in {"", "wrong"} :
        RejectSuggestion(s, agentId, reason) /\ response'.code = 200 =>
            LET before == suggestions[s]
                after == suggestions'[s]
            IN  /\ after = [before EXCEPT !.accepted = <<FALSE>>, !.acceptedBy = agentId, !.acceptedAt = TRUE]
                /\ tickets' = tickets
                /\ Len(audit') = Len(audit) + 1
                /\ IsPrefix(audit, audit')
                /\ LastEvent(audit').action = "SUGGESTION_REJECTED"
                /\ LastEvent(audit').traceId = before.traceId
                /\ LastEvent(audit').ticketId = before.ticketId
                /\ LastEvent(audit').meta.agentId = agentId
                /\ LastEvent(audit').meta.reason = reason]_vars

\* a suggestion was rejected with a reason, which the event carries
SuggestionRejected ==
    /\ response.op = "reject"
    /\ response.code = 200
    /\ \E s \in SuggestionIds :
        /\ response.suggestionId = s
        /\ suggestions[s].accepted = <<FALSE>>
        /\ suggestions[s].acceptedBy \in AgentLogins
        /\ LastEvent(audit).action = "SUGGESTION_REJECTED"
        /\ LastEvent(audit).meta.reason = "wrong"
        /\ tickets[suggestions[s].ticketId].replies = runs[suggestions[s].run].doc.replies

\* what GET /api/audit/trace/:traceId finds for d, in collection order
TraceLogs(d) == SelectSeq(audit, LAMBDA e : e.traceId = d)

\* what GET /api/audit/tickets/:ticketId/audit finds for t, in collection order
TicketLogs(t) == SelectSeq(audit, LAMBDA e : e.ticketId = t)

\* a sort on timestamp can return the events of log only in the order they were
\* appended: the timestamps grow and no two events share one
SortGivesAppendOrder(log) ==
    \A i, j \in 1..Len(log) : i < j => log[i].timestamp < log[j].timestamp

RetrievableInAppendOrder ==
    /\ \A e \in {audit[i] : i \in 1..Len(audit)} : SortGivesAppendOrder(TraceLogs(e.traceId))
    /\ \A t \in TicketIds : SortGivesAppendOrder(TicketLogs(t))

\* C20: the audit log is append-only over every operation of the system (each
\* step leaves the events there are unchanged and in place), and the events
\* of one ticket or of one trace are retrievable in the order they were appended.
AuditAppendOnlyInOrder ==
    [][IsPrefix(audit, audit') /\ RetrievableInAppendOrder']_vars

\* C21: the auto-close flag and threshold a run applies are those of the
\* configuration as it stood when the run logged TRIAGE_STARTED: whatever is
\* stored later, the run's suggestion is auto-closed exactly when that
\* configuration says so.
DecisionUsesConfigAtStart ==
    \A i \in 1..Len(suggestions) :
        suggestions[i].autoClosed <=>
            ShouldAutoClose(runs[suggestions[i].run].before.config,
                            runs[suggestions[i].run].classification)

\* runs of different traces on one ticket that both returned a result
BothSucceeded(a, b) ==
    /\ a # b
    /\ runs[a].ticketId = runs[b].ticketId
    /\ runs[a].traceId # runs[b].traceId
    /\ runs[a].pc = "done"
    /\ runs[b].pc = "done"

\* the runs on ticket t that have saved the ticket with their reply
RepliedRuns(t) ==
    {r \in RunIds : runs[r].ticketId = t /\ runs[r].pc \in {"ac_log", "reply_log", "done"}}

\* no other invocation (an earlier attempt of the same job) used r's traceId
OnlyRunOfTrace(r) == \A q \in RunIds : runs[q].traceId = runs[r].traceId => q = r

\* C22: when two runs for one ticket have both succeeded, however their steps
\* interleaved, each has its own suggestion, each trace holds the complete
\* sequence of pipeline events of its run (and nothing else of the pipeline
\* unless an earlier attempt of the same job failed), and the ticket, which
\* had no reply, holds the draft of each of them and one reply per run that
\* saved it (two when no third run has).
OverlappingRunsKeepBoth ==
    \A a, b \in RunIds :
        BothSucceeded(a, b) =>
            /\ runs[a].sugg # runs[b].sugg
            /\ \A r \in {a, b} :
                /\ runs[r].sugg \in 1..Len(suggestions)
                /\ suggestions[runs[r].sugg].traceId = runs[r].traceId
                /\ suggestions[runs[r].sugg].ticketId = runs[r].ticketId
                /\ PipelineTrail(RunTrail(r)) \in PipelineOrders
                /\ \A i \in 1..Len(RunTrail(r)) : RunTrail(r)[i].traceId = runs[r].traceId
                /\ OnlyRunOfTrace(r) => PipelineTrail(TraceTrail(runs[r].traceId)) \in PipelineOrders
            /\ Len(tickets[runs[a].ticketId].replies) = Cardinality(RepliedRuns(runs[a].ticketId))
            /\ \A r \in {a, b} :
                \E i \in 1..Len(tickets[runs[a].ticketId].replies) :
                    tickets[runs[a].ticketId].replies[i] = DraftReplyOf(r)

\* two runs succeeded although the second logged TRIAGE_STARTED before the
\* first saved the ticket: each decided on a ticket without the other's reply
RunsOverlapped ==
    \E a, b \in RunIds :
        /\ BothSucceeded(a, b)
        /\ OnlyRunOfTrace(a)
        /\ OnlyRunOfTrace(b)
        /\ runs[a].before.replies = <<>>
        /\ runs[b].before.replies = <<>>
        /\ Len(runs[a].doc.replies) = 1
        /\ Len(runs[b].doc.replies) = 1
        /\ Len(tickets[runs[a].ticketId].replies) = 2

AtMostOneConfig == Len(configs) <= 1

\* some triage run takes a step
RunStep == \E r \in 1..Len(runs') : r > Len(runs) \/ runs'[r] # runs[r]

\* C24: the Config collection holds at most one document in every reachable
\* state, and no step of a triage run changes the collection.
SingleConfigUntouchedByRuns ==
    [][AtMostOneConfig' /\ (RunStep => configs' = configs)]_vars

\* getSuggestion: AgentSuggestion.findOne({ticketId}).sort({createdAt: -1}),
\* the id of the ticket's most recently created suggestion (0 when none)
GetSuggestion(t) ==
    LET mine == {i \in 1..Len(suggestions) : suggestions[i].ticketId = t}
    IN IF mine = {} THEN 0 ELSE CHOOSE i \in mine : \A k \in mine : k <= i

\* every triage run of ticket t has run to its end without an error
AllSucceeded(t) ==
    /\ \E r \in RunIds : runs[r].ticketId = t
    /\ \A r \in RunIds : runs[r].ticketId = t => runs[r].pc = "done"

\* C25: once the runs of a ticket have all succeeded, however they were
\* interleaved, the ticket's agentSuggestionId is the suggestion that
\* getSuggestion returns for the ticket, and it is a stored suggestion.
TicketDesignatesLatestSuggestion ==
    \A t \in DOMAIN tickets :
        AllSucceeded(t) =>
            /\ tickets[t].sugg \in SuggestionIds
            /\ tickets[t].sugg = GetSuggestion(t)

\* the traceIds under which triageTicket was invoked
RunTraceIds == {runs[r].traceId : r \in RunIds}

SuggestionsOfTrace(d) == {i \in SuggestionIds : suggestions[i].traceId = d}

StartsOfTrace(d) == SelectSeq(TraceTrail(d), LAMBDA e : e.action = "TRIAGE_STARTED")

\* C26: a traceId stands for one run, also when a queued job failed part-way
\* and was retried: no traceId has more than one suggestion or more than one
\* TRIAGE_STARTED event, and a ticket holds at most one system draft reply
\* for each traceId under which it was triaged.
TraceIdentifiesOneRun ==
    /\ \A d \in RunTraceIds :
        /\ Cardinality(SuggestionsOfTrace(d)) <= 1
        /\ Len(StartsOfTrace(d)) <= 1
    /\ \A t \in DOMAIN tickets :
        tickets[t].exists =>
            SystemReplies(t) <= Cardinality({runs[r].traceId : r \in {q \in RunIds : runs[q].ticketId = t}})

\* how many replies of ticket t carry the text
Occurrences(t, text) ==
    Cardinality({i \in 1..Len(tickets[t].replies) : tickets[t].replies[i].content = text})

AcceptedEvents(log, s) ==
    SelectSeq(log, LAMBDA e : e.action = "SUGGESTION_ACCEPTED" /\ e.meta.suggestionId = s)

\* C27: accepting is not guarded by the suggestion's state. Every successful
\* accept, of a suggestion that is undecided, accepted, rejected or
\* auto-closed alike, appends one more reply with the draft to the ticket and
\* one more SUGGESTION_ACCEPTED event; the run that made the suggestion had
\* put the draft on the ticket already, so after the accept the draft occurs
\* at least twice, and exactly twice after one triage and one accept.
AcceptIsUnguarded ==
    [][\A s \in SuggestionIds, agentId \in AgentLogins :
        AcceptSuggestion(s, agentId) /\ response'.code = 200 =>
            LET sugg == suggestions[s]
                t == sugg.ticketId
            IN  /\ Len(tickets'[t].replies) = Len(tickets[t].replies) + 1
                /\ Occurrences(t, sugg.draftReply)' = Occurrences(t, sugg.draftReply) + 1
                /\ Len(AcceptedEvents(audit', s)) = Len(AcceptedEvents(audit, s)) + 1
                /\ Len(audit') = Len(audit) + 1
                /\ runs[sugg.run].pc = "done" =>
                        /\ Occurrences(t, sugg.draftReply)' >= 2
                        /\ Len(tickets[t].replies) = 1 => Occurrences(t, sugg.draftReply)' = 2]_vars

\* an auto-closed suggestion was accepted, and accepted once more
AcceptedTwice ==
    \E s \in SuggestionIds :
        /\ suggestions[s].autoClosed
        /\ Len(AcceptedEvents(audit, s)) = 2
        /\ Occurrences(suggestions[s].ticketId, suggestions[s].draftReply) = 3

\* a rejected suggestion was accepted
AcceptedAfterReject ==
    \E s \in SuggestionIds :
        /\ suggestions[s].accepted = <<TRUE>>
        /\ \E i \in 1..Len(audit) : audit[i].action = "SUGGESTION_REJECTED" /\ audit[i].meta.suggestionId = s
        /\ Occurrences(suggestions[s].ticketId, suggestions[s].draftReply) = 2

\* the call of triageTicket whose ticket lookup found nothing ends
FailsOnMissingTicket(r) ==
    /\ runs[r].pc = "catch"
    /\ runs[r].error = "Ticket not found"
    /\ CatchLog(r)

\* a request names a suggestion that is not stored
MissingSuggestionRequest ==
    \E a \in AgentLogins :
        \/ AcceptSuggestion(Len(suggestions) + 1, a)
        \/ \E reason \in {"", "wrong"} : RejectSuggestion(Len(suggestions) + 1, a, reason)

\* C28: a call of triageTicket for a ticket that does not exist raises
\* 'Ticket not found' and leaves exactly one audit event, TRIAGE_FAILED, with
\* no suggestion and no ticket changed; accepting or rejecting a suggestion
\* that does not exist is answered 'Suggestion not found' and changes nothing.
MissingTargetsChangeNothing ==
    [][/\ \A r \in RunIds :
            FailsOnMissingTicket(r) =>
                /\ runs'[r].raised = "Ticket not found"
                /\ ActionsOf(RunTrail(r)') = <<"TRIAGE_FAILED">>
                /\ audit' = Append(audit, LastEvent(audit'))
                /\ \A i \in SuggestionIds : suggestions[i].run # r
                /\ suggestions' = suggestions
                /\ tickets' = tickets
       /\ \A r \in RunIds :
            ~tickets[runs[r].ticketId].exists /\ runs'[r] # runs[r] =>
                tickets' = tickets /\ suggestions' = suggestions
       /\ MissingSuggestionRequest =>
                /\ response'.code = 404
                /\ UNCHANGED <<tickets, users, configs, suggestions, audit, runs, jobs>>]_vars

\* C29: the classification step writes the predicted category to the ticket
\* exactly when it differs from the ticket's category and the confidence is
\* above 0.7; the write is stored before retrieval starts, and no other step
\* of the run, the failure of a later step included, touches the category.
CategoryOverwrittenWhenConfident ==
    [][\A r \in RunIds :
        LET t == runs[r].ticketId
            c == runs'[r].classification
            old == tickets[t].category
        IN  /\ (runs[r].pc \in {"classify", "classify_save"} /\ runs'[r].pc = "retrieve") =>
                    tickets'[t].category =
                        IF c.predictedCategory # old /\ c.confidence > CategoryUpdateConfidence
                        THEN c.predictedCategory ELSE old
            /\ (runs[r].pc = "classify" /\ runs'[r].pc = "classify_save") =>
                    c.predictedCategory # old /\ c.confidence > CategoryUpdateConfidence
            /\ (runs[r].pc # "classify_save" /\ runs'[r] # runs[r]) =>
                    tickets'[t].category = old]_vars

\* a run changed the category and failed at a later step; the change stays
CategoryKeptAfterFailure ==
    \E r \in RunIds :
        /\ runs[r].pc = "failed"
        /\ runs[r].error \notin {"store", "Classification service unavailable"}
        /\ runs[r].classification.confidence > CategoryUpdateConfidence
        /\ tickets[runs[r].ticketId].category = runs[r].classification.predictedCategory
        /\ \E i \in 1..Len(audit) :
                /\ audit[i].run = r
                /\ audit[i].action = "TRIAGE_STARTED"
                /\ audit[i].meta.category # runs[r].classification.predictedCategory

RunsOfTrace(d) == {r \in RunIds : runs[r].traceId = d}

\* C30: without a queue the create request is answered when its inline triage
\* ends. When the triage fails the answer is an error although the ticket and
\* its TICKET_CREATED event are stored, and the triage was attempted once;
\* when it succeeds the answer is 201 and the trace begins with TICKET_CREATED
\* followed by TRIAGE_STARTED.
InlineCreateAnswersAfterTriage ==
    [][\A r \in RunIds :
        (~env.queue /\ AwaitedByCreate(r) /\ Running(r)) =>
            LET t == runs[r].ticketId
                d == runs[r].traceId
            IN  /\ response # Response("create", t, 201)
                /\ tickets[t].exists
                /\ RunsOfTrace(d)' = {r}
                /\ runs'[r].pc = "failed" =>
                        /\ response' = Response("create", t, 500)
                        /\ tickets'[t].exists
                        /\ ActionsOf(TraceTrail(d)')[1] = "TICKET_CREATED"
                        /\ jobs' = <<>>
                /\ runs'[r].pc = "done" =>
                        /\ response' = Response("create", t, 201)
                        /\ SubSeq(ActionsOf(TraceTrail(d)'), 1, 2) = <<"TICKET_CREATED", "TRIAGE_STARTED">>]_vars

\* a create request ended in an error after its ticket was stored and triaged once
CreateFailedAfterTriage ==
    \E r \in RunIds :
        /\ ~env.queue
        /\ AwaitedByCreate(r)
        /\ runs[r].pc = "failed"
        /\ response = Response("create", runs[r].ticketId, 500)
        /\ tickets[runs[r].ticketId].exists
        /\ RunsOfTrace(runs[r].traceId) = {r}

\* a create request was answered 201 after its inline triage
CreateSucceededAfterTriage ==
    \E r \in RunIds :
        /\ ~env.queue
        /\ AwaitedByCreate(r)
        /\ runs[r].pc = "done"
        /\ response = Response("create", runs[r].ticketId, 201)

\* run r has logged what the search returned
Retrieved(r) == \E i \in 1..Len(audit) : audit[i].run = r /\ audit[i].action = "KB_RETRIEVED"

\* C23: what searchArticles returns to the pipeline, for every query and
\* article collection: at most limit articles, each published, no identifier
\* twice, in the order of their relevance scores, greatest first; and when
\* the text search alone returned limit articles, nothing comes from the
\* keyword search.
SearchResultWellFormed ==
    \A r \in RunIds :
        Retrieved(r) =>
            LET text == runs[r].doc.text
                category == runs[r].classification.predictedCategory
                res == ScoredSearch(env.kb, text, category, RetrieveLimit)
                found == TextSearch(env.kb, text, category, RetrieveLimit)
                byKeyword == KeywordSearch(env.kb, text, category, RetrieveLimit - Len(found))
            IN  /\ runs[r].articles = [i \in 1..Len(res) |-> res[i].a.id]
                /\ Len(res) <= RetrieveLimit
                /\ \A i \in 1..Len(res) :
                        \E k \in 1..Len(env.kb) : env.kb[k].id = res[i].a.id /\ env.kb[k].status = "published"
                /\ \A i, j \in 1..Len(res) : i # j => res[i].a.id # res[j].a.id
                /\ \A i, j \in 1..Len(res) : i < j => res[i].relevanceScore >= res[j].relevanceScore
                /\ \A i \in 1..Len(res) :
                        \/ \E k \in 1..Len(found) : found[k].id = res[i].a.id
                        \/ /\ Len(found) < RetrieveLimit
                           /\ \E k \in 1..Len(byKeyword) : byKeyword[k].id = res[i].a.id

\* a search in which the keyword phase added an article and the scoring put
\* it before one that the text search had found
KeywordPhaseContributed ==
    \E r \in RunIds :
        /\ Retrieved(r)
        /\ Len(runs[r].articles) >= 2
        /\ LET found == TextSearch(env.kb, runs[r].doc.text, runs[r].classification.predictedCategory,
                                   RetrieveLimit)
           IN  /\ found # <<>>
               /\ \A k \in 1..Len(found) : found[k].id # runs[r].articles[1]

====
